---------------------------- MODULE Spec2Model ----------------------------
(***************************************************************************)
(* potxkit: the package / relationship-graph engine.                       *)
(*                                                                         *)
(* The package (OOXMLPackage) is a value [parts, order]; every function    *)
(* of the source that takes `pkg` and mutates it is an operator from a     *)
(* package to the package it leaves behind.  A function that can raise     *)
(* returns [pkg, err, ret]: the package as it stands when the exception    *)
(* leaves the function (there is no rollback), the exception, the result.  *)
(***************************************************************************)
EXTENDS Integers, Sequences, FiniteSets, TLC

VARIABLES pkg,   \* the OOXMLPackage: _parts (name -> bytes) and _order
          op,    \* the function called last
          args,  \* the arguments it was called with
          err,   \* "ok", or the exception the call raised
          ret,   \* <<value>>: what the call returned; <<>>: it returned
                 \* None, or raised
          calls  \* how many calls the run has made

vars == <<pkg, op, args, err, ret, calls>>

None == "None"

-----------------------------------------------------------------------------
(* Part names.  A name is kept in pieces so that the path arithmetic of   *)
(* posixpath can be computed: abs = it starts with "/", dir = the         *)
(* directory components, and stem ++ num ++ "." ++ ext the base name      *)
(* (num = -1: the base name carries no number).                           *)

Path(dir, stem, num, ext) ==
    [abs |-> FALSE, dir |-> dir, stem |-> stem, num |-> num, ext |-> ext]

CONTENT_TYPES_PART == Path(<<>>, "[Content_Types]", -1, <<"xml">>)
PRESENTATION_PART  == Path(<<"ppt">>, "presentation", -1, <<"xml">>)

SlidePart(n)  == Path(<<"ppt", "slides">>, "slide", n, <<"xml">>)
LayoutPart(n) == Path(<<"ppt", "slideLayouts">>, "slideLayout", n, <<"xml">>)
MasterPart(n) == Path(<<"ppt", "slideMasters">>, "slideMaster", n, <<"xml">>)
TempLayoutPart(n) == Path(<<"ppt", "slideLayouts">>, "_tmpLayout", n, <<"xml">>)
ThemePart(n)  == Path(<<"ppt", "theme">>, "theme", n, <<"xml">>)
MediaPart(n)  == Path(<<"ppt", "media">>, "image", n, <<"png">>)

\* OOXMLPackage._normalize_name: a leading slash is stripped
normalize_name(name) == [name EXCEPT !.abs = FALSE]

\* content_types._normalize_part_name: a leading slash is added
normalize_part_name(name) == [name EXCEPT !.abs = TRUE]

\* rels._strip_leading_slash
strip_leading_slash(path) == [path EXCEPT !.abs = FALSE]

\* rels.rels_part_for: dirname/_rels/basename.rels
\* (every part of the model has a non-empty name, so the root case
\* "_rels/.rels" does not arise)
rels_part_for(source_part) ==
    LET source == strip_leading_slash(source_part)
    IN  [source EXCEPT !.dir = Append(source.dir, "_rels"),
                       !.ext = Append(source.ext, "rels")]

\* posixpath.normpath on the directory components of a relative path
RECURSIVE NormComps(_, _)
NormComps(done, rest) ==
    IF rest = <<>> THEN done
    ELSE LET c == Head(rest)
         IN  IF c = "." THEN NormComps(done, Tail(rest))
             ELSE IF c = ".." /\ done # <<>> /\ done[Len(done)] # ".."
                  THEN NormComps(SubSeq(done, 1, Len(done) - 1), Tail(rest))
                  ELSE NormComps(Append(done, c), Tail(rest))

RECURSIVE CommonPrefixLen(_, _)
CommonPrefixLen(a, b) ==
    IF a = <<>> \/ b = <<>> \/ Head(a) # Head(b) THEN 0
    ELSE 1 + CommonPrefixLen(Tail(a), Tail(b))

\* layout_ops._rel_target: posixpath.relpath(target_part, start=dirname(source_part))
rel_target(source_part, target_part) ==
    LET source_dir == NormComps(<<>>, source_part.dir)
        target_dir == NormComps(<<>>, target_part.dir)
        i == CommonPrefixLen(source_dir, target_dir)
    IN  [target_part EXCEPT
            !.abs = FALSE,
            !.dir = [k \in 1..(Len(source_dir) - i) |-> ".."]
                    \o SubSeq(target_dir, i + 1, Len(target_dir))]

\* layout_ops._resolve_target / slide_index._resolve_target
resolve_target(base_dir, target) ==
    IF target.abs THEN [target EXCEPT !.abs = FALSE]
    ELSE [target EXCEPT !.dir = NormComps(<<>>, base_dir \o target.dir)]

\* posixpath.dirname of a part name
dirname(part) == part.dir

-----------------------------------------------------------------------------
(* sorted(): Python compares the names as strings.  All names compared    *)
(* here lie in one directory and have one extension, so the order is      *)
(* decided by the stem ("_tmpLayout" < "slideLayout": "_" < "s") and then *)
(* by the decimal digits of the number, compared as characters; where one *)
(* number is a prefix of the other the shorter name comes first, as "."   *)
(* sorts before every digit ("slideLayout1.xml" < "slideLayout10.xml"     *)
(* < "slideLayout2.xml").                                                 *)

RECURSIVE Digits(_)
Digits(n) == IF n < 10 THEN <<n>> ELSE Append(Digits(n \div 10), n % 10)

RECURSIVE LexLess(_, _)
LexLess(a, b) ==
    IF a = <<>> THEN b # <<>>
    ELSE IF b = <<>> THEN FALSE
    ELSE IF Head(a) # Head(b) THEN Head(a) < Head(b)
    ELSE LexLess(Tail(a), Tail(b))

StemRank(stem) == IF stem = "_tmpLayout" THEN 0 ELSE 1

NameLess(p, q) ==
    IF p.stem # q.stem THEN StemRank(p.stem) < StemRank(q.stem)
    ELSE LexLess(Digits(p.num), Digits(q.num))

RECURSIVE sorted(_)
sorted(S) ==
    IF S = {} THEN <<>>
    ELSE LET m == CHOOSE x \in S : \A y \in S \ {x} : NameLess(x, y)
         IN  <<m>> \o sorted(S \ {m})

Range(s) == {s[i] : i \in DOMAIN s}

-----------------------------------------------------------------------------
(* package.py: OOXMLPackage *)

list_parts(p) == DOMAIN p.parts

has_part(p, name) == normalize_name(name) \in DOMAIN p.parts

\* read_part: the caller has checked has_part, or the KeyError is modelled
\* at the call
read_part(p, name) == p.parts[normalize_name(name)]

write_part(p, name, data) ==
    LET key == normalize_name(name)
    IN  [parts |-> [k \in DOMAIN p.parts \cup {key} |->
                        IF k = key THEN data ELSE p.parts[k]],
         order |-> IF key \in DOMAIN p.parts THEN p.order
                   ELSE Append(p.order, key)]

delete_part(p, name) ==
    LET key == normalize_name(name)
        Keep(entry) == entry # key
    IN  [parts |-> [k \in DOMAIN p.parts \ {key} |-> p.parts[k]],
         order |-> SelectSeq(p.order, Keep)]

\* iter_parts: the names of _order that are parts, each with its data
iter_parts(p) ==
    LET Present(name) == name \in DOMAIN p.parts
        names == SelectSeq(p.order, Present)
    IN  [i \in DOMAIN names |-> <<names[i], p.parts[names[i]]>>]

\* a sequence of the elements of a set
RECURSIVE SeqOf(_)
SeqOf(S) ==
    IF S = {} THEN <<>>
    ELSE LET x == CHOOSE y \in S : TRUE IN <<x>> \o SeqOf(S \ {x})

\* a save_bytes that stops after the first part
save_bytes_first(p) ==
    IF iter_parts(p) = <<>> THEN <<>> ELSE <<iter_parts(p)[1]>>

\* save_bytes: the entries of the archive written, <<name, data>>, in the
\* order of the writestr calls: the parts of iter_parts, then the parts
\* that _order does not hold
save_bytes(p) ==
    LET written == {p.order[i] : i \in DOMAIN p.order} \cap DOMAIN p.parts
        rest == SeqOf(DOMAIN p.parts \ written)
    IN  iter_parts(p) \o [i \in DOMAIN rest |-> <<rest[i], p.parts[rest[i]]>>]

-----------------------------------------------------------------------------
(* rels.py.  A relationship id "rId<N>" is the number N. *)

SLIDE_LAYOUT_REL ==
    "http://schemas.openxmlformats.org/officeDocument/2006/relationships/slideLayout"
SLIDE_MASTER_REL ==
    "http://schemas.openxmlformats.org/officeDocument/2006/relationships/slideMaster"
IMAGE_REL ==
    "http://schemas.openxmlformats.org/officeDocument/2006/relationships/image"
SLIDE_REL ==
    "http://schemas.openxmlformats.org/officeDocument/2006/relationships/slide"
THEME_REL ==
    "http://schemas.openxmlformats.org/officeDocument/2006/relationships/theme"
HYPERLINK_REL ==
    "http://schemas.openxmlformats.org/officeDocument/2006/relationships/hyperlink"
\* the slideLayout type of the Strict conformance class: it ends with
\* "/slideLayout" and differs from SLIDE_LAYOUT_REL
STRICT_SLIDE_LAYOUT_REL ==
    "http://purl.oclc.org/ooxml/officeDocument/relationships/slideLayout"

SLIDE_LAYOUT_CONTENT_TYPE ==
    "application/vnd.openxmlformats-officedocument.presentationml.slideLayout+xml"

\* rel.type.endswith("/slideLayout"), over the types of the model
EndsWithSlideLayout(type) == type \in {SLIDE_LAYOUT_REL, STRICT_SLIDE_LAYOUT_REL}

\* rel_type.endswith("/slide"), over the types of the model
EndsWithSlide(type) == type = SLIDE_REL

\* the dataclass Relationship
Relationship(id, type, target, target_mode) ==
    [id |-> id, type |-> type, target |-> target, target_mode |-> target_mode]

\* an attribute an XML element does not carry
Absent == "<absent>"

\* parse_relationships: the Relationship children of the sidecar's root
parse_relationships(xml_bytes) ==
    [i \in 1..Len(xml_bytes.Relationship) |->
        LET attrib == xml_bytes.Relationship[i]
        IN  Relationship(attrib.Id, attrib.Type, attrib.Target,
                IF attrib.TargetMode = Absent THEN None ELSE attrib.TargetMode)]

\* serialize_relationships: TargetMode is written only when it is truthy
serialize_relationships(relationships) ==
    [tag |-> "Relationships",
     Relationship |->
        [i \in 1..Len(relationships) |->
            LET rel == relationships[i]
            IN  [Id |-> rel.id, Type |-> rel.type, Target |-> rel.target,
                 TargetMode |-> IF rel.target_mode \in {None, ""} THEN Absent
                                ELSE rel.target_mode]]]

get_relationships(p, source_part) ==
    LET rels_part == rels_part_for(source_part)
    IN  IF ~has_part(p, rels_part) THEN <<>>
        ELSE parse_relationships(read_part(p, rels_part))

write_relationships(p, source_part, relationships) ==
    write_part(p, rels_part_for(source_part), serialize_relationships(relationships))

\* a _next_rid that counts on from the largest id
next_rid_after_largest(relationships) ==
    LET existing == {0} \cup {relationships[i].id : i \in DOMAIN relationships}
    IN  (CHOOSE idx \in existing : \A other \in existing : other <= idx) + 1

\* rels._next_rid / layout_ops._next_rid: the smallest N >= 1 with rId<N> unused
next_rid(relationships) ==
    LET existing == {relationships[i].id : i \in DOMAIN relationships}
    IN  CHOOSE idx \in 1..(Len(relationships) + 1) :
            /\ idx \notin existing
            /\ \A j \in 1..(idx - 1) : j \in existing

\* an ensure_relationship that does not look for the relationship
ensure_relationship_appending(p, source_part, rel_type, target) ==
    LET relationships == get_relationships(p, source_part)
        new_rel == Relationship(next_rid(relationships), rel_type, target, None)
    IN  [pkg |-> write_relationships(p, source_part, Append(relationships, new_rel)),
         rel |-> new_rel]

\* ensure_relationship: [pkg, rel]
ensure_relationship(p, source_part, rel_type, target) ==
    LET relationships == get_relationships(p, source_part)
        found == {i \in DOMAIN relationships :
                    /\ relationships[i].type = rel_type
                    /\ relationships[i].target = target}
    IN  IF found # {}
        THEN [pkg |-> p,
              rel |-> relationships[CHOOSE i \in found : \A j \in found : i <= j]]
        ELSE LET new_rel == Relationship(next_rid(relationships), rel_type, target, None)
             IN  [pkg |-> write_relationships(p, source_part,
                                              Append(relationships, new_rel)),
                  rel |-> new_rel]

-----------------------------------------------------------------------------
(* content_types.py.  The registry part is [Default, Override]: the       *)
(* Default and the Override children of its root, in document order.      *)

\* a ContentTypes.ensure_override that gives an Override it finds the new
\* content type
ct_ensure_override_overwriting(ct, part_name, content_type) ==
    LET part == normalize_part_name(part_name)
        entry == [PartName |-> part, ContentType |-> content_type]
    IN  IF \E i \in DOMAIN ct.Override : ct.Override[i].PartName = part
        THEN [ct |-> [ct EXCEPT !.Override =
                        [i \in DOMAIN @ |-> IF @[i].PartName = part THEN entry
                                            ELSE @[i]]],
              changed |-> TRUE]
        ELSE [ct |-> [ct EXCEPT !.Override = Append(@, entry)], changed |-> TRUE]

\* ContentTypes.ensure_override: [ct, changed]
ct_ensure_override(ct, part_name, content_type) ==
    LET part == normalize_part_name(part_name)
    IN  IF \E i \in DOMAIN ct.Override : ct.Override[i].PartName = part
        THEN [ct |-> ct, changed |-> FALSE]
        ELSE [ct |-> [ct EXCEPT !.Override =
                        Append(@, [PartName |-> part, ContentType |-> content_type])],
              changed |-> TRUE]

\* ContentTypes.remove_override: [ct, changed]
ct_remove_override(ct, part_name) ==
    LET part == normalize_part_name(part_name)
        Keep(override) == override.PartName # part
    IN  [ct |-> [ct EXCEPT !.Override = SelectSeq(@, Keep)],
         changed |-> \E i \in DOMAIN ct.Override : ct.Override[i].PartName = part]

\* ensure_override: [pkg, err, changed]
ensure_override(p, part_name, content_type) ==
    IF ~has_part(p, CONTENT_TYPES_PART)
    THEN [pkg |-> p, err |-> "KeyError: [Content_Types].xml not found",
          changed |-> FALSE]
    ELSE LET r == ct_ensure_override(read_part(p, CONTENT_TYPES_PART),
                                     part_name, content_type)
         IN  [pkg |-> IF r.changed THEN write_part(p, CONTENT_TYPES_PART, r.ct)
                      ELSE p,
              err |-> "ok", changed |-> r.changed]

\* a remove_override that leaves the registry as it is
remove_override_kept(p, part_name) == p

\* remove_override: the package afterwards
remove_override(p, part_name) ==
    IF ~has_part(p, CONTENT_TYPES_PART) THEN p
    ELSE LET r == ct_remove_override(read_part(p, CONTENT_TYPES_PART), part_name)
         IN  IF r.changed THEN write_part(p, CONTENT_TYPES_PART, r.ct) ELSE p

(* An extension is the sequence of its characters. *)

\* str.lower, over the letters of the model
LowerChar(c) ==
    CASE c = "P" -> "p" [] c = "N" -> "n" [] c = "G" -> "g" [] OTHER -> c

lower(s) == [i \in DOMAIN s |-> LowerChar(s[i])]

\* str.lstrip("."): every leading dot is taken off
RECURSIVE lstrip_dot(_)
lstrip_dot(s) ==
    IF s # <<>> /\ Head(s) = "." THEN lstrip_dot(Tail(s)) ELSE s

\* _ensure_default_element: [ct, changed]
ensure_default_element(ct, extension, content_type) ==
    LET ext == lstrip_dot(lower(extension))
    IN  IF \E i \in DOMAIN ct.Default : ct.Default[i].Extension = ext
        THEN [ct |-> ct, changed |-> FALSE]
        ELSE [ct |-> [ct EXCEPT !.Default =
                        Append(@, [Extension |-> ext, ContentType |-> content_type])],
              changed |-> TRUE]

\* ensure_default: [pkg, err, changed]
ensure_default(p, extension, content_type) ==
    IF ~has_part(p, CONTENT_TYPES_PART)
    THEN [pkg |-> p, err |-> "KeyError: [Content_Types].xml not found",
          changed |-> FALSE]
    ELSE LET r == ensure_default_element(read_part(p, CONTENT_TYPES_PART),
                                         extension, content_type)
         IN  [pkg |-> IF r.changed THEN write_part(p, CONTENT_TYPES_PART, r.ct)
                      ELSE p,
              err |-> "ok", changed |-> r.changed]

has_override(p, part_name) ==
    /\ has_part(p, CONTENT_TYPES_PART)
    /\ LET ct == read_part(p, CONTENT_TYPES_PART)
       IN  \E i \in DOMAIN ct.Override :
              ct.Override[i].PartName = normalize_part_name(part_name)

-----------------------------------------------------------------------------
(* slide_index.py *)

fallback_slide_parts(p) ==
    sorted({q \in list_parts(p) :
              /\ q.dir = <<"ppt", "slides">>
              /\ q.stem = "slide"
              /\ q.ext = <<"xml">>})

\* _read_rels: Id -> (Type, Target); a later entry with the same Id wins
read_rels(p, rels_part) ==
    IF ~has_part(p, rels_part) THEN <<>>
    ELSE read_part(p, rels_part).Relationship

RelById(rels, rid) ==
    LET hits == {i \in DOMAIN rels : rels[i].Id = rid}
    IN  rels[CHOOSE i \in hits : \A j \in hits : j <= i]

\* a resolution that keeps the relationships of every type
RECURSIVE ResolveSlideIds_any_type(_, _)
ResolveSlideIds_any_type(sldIdLst, rels) ==
    IF sldIdLst = <<>> THEN <<>>
    ELSE LET rid == Head(sldIdLst)
             rest == ResolveSlideIds_any_type(Tail(sldIdLst), rels)
         IN  IF \A i \in DOMAIN rels : rels[i].Id # rid THEN rest
             ELSE <<resolve_target(<<"ppt">>, RelById(rels, rid).Target)>> \o rest

RECURSIVE ResolveSlideIds(_, _)
ResolveSlideIds(sldIdLst, rels) ==
    IF sldIdLst = <<>> THEN <<>>
    ELSE LET rid == Head(sldIdLst)
             rest == ResolveSlideIds(Tail(sldIdLst), rels)
         IN  IF \A i \in DOMAIN rels : rels[i].Id # rid THEN rest
             ELSE LET rel == RelById(rels, rid)
                  IN  IF ~EndsWithSlide(rel.Type) THEN rest
                      ELSE <<resolve_target(<<"ppt">>, rel.Target)>> \o rest

slide_parts_in_order(p) ==
    IF ~has_part(p, PRESENTATION_PART) \/ ~has_part(p, rels_part_for(PRESENTATION_PART))
    THEN fallback_slide_parts(p)
    ELSE LET presentation == read_part(p, PRESENTATION_PART)
             rels == read_rels(p, rels_part_for(PRESENTATION_PART))
             slide_parts == ResolveSlideIds(presentation.sldIdLst, rels)
         IN  IF slide_parts # <<>> THEN slide_parts ELSE fallback_slide_parts(p)

-----------------------------------------------------------------------------
(* layout_ops.py.  The XML parts, as far as the code reads them:          *)
(*   slide   [tag, cSld, rids]   rids: the r:embed / r:link / r:id values  *)
(*                               outside the body                          *)
(*   layout  [tag, name, cSld, rest]   rest: what the document holds       *)
(*                               beside its name and body                  *)
(*   master  [tag, sldLayoutIdLst]                                         *)
(*   a body  cSld = [present, tok, rids]: whether the element is there,    *)
(*           its content, the r:embed / r:link / r:id values inside it     *)
(*   a list  sldLayoutIdLst = [present, items], items a sequence of        *)
(*           [id, rid]: the id and r:id attributes of each sldLayoutId     *)

\* _layout_parts: startswith("ppt/slideLayouts/") and endswith(".xml"), sorted
layout_parts(p) ==
    sorted({q \in list_parts(p) :
              /\ Len(q.dir) >= 2
              /\ SubSeq(q.dir, 1, 2) = <<"ppt", "slideLayouts">>
              /\ q.ext[Len(q.ext)] = "xml"})

\* _master_parts: startswith("ppt/slideMasters/") and endswith(".xml"), sorted
master_parts(p) ==
    sorted({q \in list_parts(p) :
              /\ Len(q.dir) >= 2
              /\ SubSeq(q.dir, 1, 2) = <<"ppt", "slideMasters">>
              /\ q.ext[Len(q.ext)] = "xml"})

\* _master_part_by_index: [err, part]
master_part_by_index(p, index) ==
    LET masters == master_parts(p)
    IN  IF masters = <<>>
        THEN [err |-> "ValueError: No slide master parts found", part |-> None]
        ELSE IF index < 1 \/ index > Len(masters)
        THEN [err |-> "ValueError: Master index out of range", part |-> None]
        ELSE [err |-> "ok", part |-> masters[index]]

\* _first_layout_for_master: [err, part].  The sidecar is read without a
\* has_part check: read_part raises KeyError when the master has none.
first_layout_for_master(p, master_part) ==
    LET rels_part == rels_part_for(master_part)
    IN  IF ~has_part(p, rels_part)
        THEN [err |-> "KeyError: Part not found", part |-> None]
        ELSE LET relationships == parse_relationships(read_part(p, rels_part))
                 hits == {i \in DOMAIN relationships :
                            relationships[i].type = SLIDE_LAYOUT_REL}
                 layouts == layout_parts(p)
             IN  IF hits # {}
                 THEN [err |-> "ok",
                       part |-> resolve_target(dirname(master_part),
                           relationships[CHOOSE i \in hits :
                                            \A j \in hits : i <= j].target)]
                 ELSE IF layouts = <<>>
                 THEN [err |-> "ValueError: No slide layout parts found",
                       part |-> None]
                 ELSE [err |-> "ok", part |-> layouts[1]]

\* _slide_embed_ids: every r:embed, r:link, r:id of the slide document
slide_embed_ids(xml_bytes) ==
    xml_bytes.rids \cup (IF xml_bytes.cSld.present THEN xml_bytes.cSld.rids ELSE {})

\* _layout_relationships_from_slide (the caller has checked the sidecar)
layout_relationships_from_slide(p, slide_part, master_part, layout_part) ==
    LET slide_rels == parse_relationships(read_part(p, rels_part_for(slide_part)))
        embed_ids == slide_embed_ids(read_part(p, slide_part))
        Embedded(rel) == rel.id \in embed_ids
        layout_rels == SelectSeq(slide_rels, Embedded)
        master_target == rel_target(layout_part, master_part)
        master_id == next_rid(layout_rels)
    IN  Append(layout_rels,
               Relationship(master_id, SLIDE_MASTER_REL, master_target, None))

Max(S) == CHOOSE x \in S : \A y \in S : y <= x

\* an _insert_layout_id that appends no entry
insert_layout_id_skipped(master_part, p, rel_id) == p

\* an _insert_layout_id that gives every new entry the id 256
insert_layout_id_default(master_part, p, rel_id) ==
    LET root == read_part(p, master_part)
        items == IF root.sldLayoutIdLst.present THEN root.sldLayoutIdLst.items
                 ELSE <<>>
    IN  write_part(p, master_part,
            [root EXCEPT !.sldLayoutIdLst =
                [present |-> TRUE,
                 items |-> Append(items, [id |-> 256, rid |-> rel_id])]])

\* _insert_layout_id
insert_layout_id(master_part, p, rel_id) ==
    LET root == read_part(p, master_part)
        items == IF root.sldLayoutIdLst.present THEN root.sldLayoutIdLst.items
                 ELSE <<>>
        max_id == Max({0} \cup {items[i].id : i \in DOMAIN items})
        new_id == IF max_id # 0 THEN max_id + 1 ELSE 256
    IN  write_part(p, master_part,
            [root EXCEPT !.sldLayoutIdLst =
                [present |-> TRUE,
                 items |-> Append(items, [id |-> new_id, rid |-> rel_id])]])

\* a _next_layout_part that takes the name of the first layout
next_layout_part_first(p) == layout_parts(p)[1]

\* _next_layout_part
next_layout_part(p) ==
    LET layouts == layout_parts(p)
        numbers == {layouts[i].num : i \in {j \in DOMAIN layouts :
                        layouts[j].stem = "slideLayout" /\ layouts[j].num >= 0}}
    IN  LayoutPart(IF numbers # {} THEN Max(numbers) + 1 ELSE 1)

\* make_layout_from_slide, from its first write on: the layout part is
\* written, then the slide's sidecar is read (KeyError without one), then
\* the layout's sidecar, the master's relationship and layout-id entry are
\* written, and the Override comes last (KeyError without a registry).
make_layout_writes(p, slide_part, master_part, layout_root) ==
    LET new_layout_part == next_layout_part(p)
        p1 == write_part(p, new_layout_part, layout_root)
    IN  IF ~has_part(p1, rels_part_for(slide_part))
        THEN [pkg |-> p1, err |-> "KeyError: Part not found", ret |-> None]
        ELSE
        LET layout_rels == layout_relationships_from_slide(
                               p1, slide_part, master_part, new_layout_part)
            p2 == write_part(p1, rels_part_for(new_layout_part),
                             serialize_relationships(layout_rels))
            master_rel_target == rel_target(master_part, new_layout_part)
            e == ensure_relationship(p2, master_part, SLIDE_LAYOUT_REL,
                                     master_rel_target)
            p3 == insert_layout_id(master_part, e.pkg, e.rel.id)
            o == ensure_override(p3, normalize_part_name(new_layout_part),
                                 SLIDE_LAYOUT_CONTENT_TYPE)
        IN  IF o.err # "ok" THEN [pkg |-> o.pkg, err |-> o.err, ret |-> None]
            ELSE [pkg |-> o.pkg, err |-> "ok", ret |-> new_layout_part]

\* make_layout_from_slide: [pkg, err, ret].  The cSld of the template is a
\* child of its root, so "Failed to locate layout cSld parent" cannot occur.
make_layout_from_slide(p, slide_number, name, master_index) ==
    LET slide_parts == slide_parts_in_order(p)
        Raise(e) == [pkg |-> p, err |-> e, ret |-> None]
    IN  IF slide_number < 1 \/ slide_number > Len(slide_parts)
        THEN Raise("ValueError: Slide number out of range")
        ELSE
        LET m == master_part_by_index(p, master_index)
        IN  IF m.err # "ok" THEN Raise(m.err)
            ELSE
            LET t == first_layout_for_master(p, m.part)
                slide_part == slide_parts[slide_number]
            IN  IF t.err # "ok" THEN Raise(t.err)
                ELSE IF ~has_part(p, slide_part) \/ ~has_part(p, t.part)
                THEN Raise("KeyError: Part not found")
                ELSE
                LET slide_root == read_part(p, slide_part)
                    layout_root == read_part(p, t.part)
                IN  IF ~slide_root.cSld.present \/ ~layout_root.cSld.present
                    THEN Raise("ValueError: Slide or layout is missing cSld")
                    ELSE make_layout_writes(p, slide_part, m.part,
                            [layout_root EXCEPT !.cSld = slide_root.cSld,
                                                !.name = name])

\* a _set_slide_layout that writes a sidecar of the slideLayout
\* relationship alone
set_slide_layout_alone(p, slide_part, layout_part) ==
    LET rels_part == rels_part_for(slide_part)
    IN  IF ~has_part(p, rels_part)
        THEN [pkg |-> p, err |-> "ValueError: Missing relationships for slide"]
        ELSE [pkg |-> write_part(p, rels_part, serialize_relationships(
                         <<Relationship(1, SLIDE_LAYOUT_REL,
                                        rel_target(slide_part, layout_part), None)>>)),
              err |-> "ok"]

\* _set_slide_layout: [pkg, err]
set_slide_layout(p, slide_part, layout_part) ==
    LET rels_part == rels_part_for(slide_part)
    IN  IF ~has_part(p, rels_part)
        THEN [pkg |-> p, err |-> "ValueError: Missing relationships for slide"]
        ELSE
        LET relationships == parse_relationships(read_part(p, rels_part))
            target == rel_target(slide_part, layout_part)
            hits == {i \in DOMAIN relationships :
                        relationships[i].type = SLIDE_LAYOUT_REL}
            first == CHOOSE i \in hits : \A j \in hits : i <= j
            updated == IF hits # {}
                       THEN [relationships EXCEPT ![first].target = target]
                       ELSE Append(relationships,
                                Relationship(next_rid(relationships),
                                             SLIDE_LAYOUT_REL, target, None))
        IN  [pkg |-> write_part(p, rels_part, serialize_relationships(updated)),
             err |-> "ok"]

\* the loop of assign_slides_to_layout: each number is checked when its turn
\* comes, after the slides before it have been rewritten
RECURSIVE assign_loop(_, _, _, _)
assign_loop(p, slide_parts, slide_numbers, layout_part) ==
    IF slide_numbers = <<>> THEN [pkg |-> p, err |-> "ok", ret |-> None]
    ELSE LET number == Head(slide_numbers)
         IN  IF number < 1 \/ number > Len(slide_parts)
             THEN [pkg |-> p, err |-> "ValueError: Slide number out of range",
                   ret |-> None]
             ELSE LET r == set_slide_layout(p, slide_parts[number], layout_part)
                  IN  IF r.err # "ok"
                      THEN [pkg |-> r.pkg, err |-> r.err, ret |-> None]
                      ELSE assign_loop(r.pkg, slide_parts, Tail(slide_numbers),
                                       layout_part)

\* assign_slides_to_layout: [pkg, err, ret]
assign_slides_to_layout(p, slide_numbers, layout_part) ==
    assign_loop(p, slide_parts_in_order(p), slide_numbers, layout_part)

\* _slide_layout_part: [found, part]: the target of the slide's first
\* relationship whose type ends with "/slideLayout"
slide_layout_part(p, slide_part) ==
    LET rels_part == rels_part_for(slide_part)
    IN  IF ~has_part(p, rels_part) THEN [found |-> FALSE, part |-> None]
        ELSE LET relationships == parse_relationships(read_part(p, rels_part))
                 hits == {i \in DOMAIN relationships :
                            EndsWithSlideLayout(relationships[i].type)}
             IN  IF hits = {} THEN [found |-> FALSE, part |-> None]
                 ELSE [found |-> TRUE,
                       part |-> resolve_target(dirname(slide_part),
                           relationships[CHOOSE i \in hits :
                                            \A j \in hits : i <= j].target)]

\* the body of the loop of _remove_layout_from_masters, for one master:
\* [pkg, updated]
remove_layout_from_master(p, master_part, layout_part) ==
    LET rels_part == rels_part_for(master_part)
    IN  IF ~has_part(p, rels_part) THEN [pkg |-> p, updated |-> 0]
        ELSE
        LET relationships == parse_relationships(read_part(p, rels_part))
            Removed(rel) ==
                /\ EndsWithSlideLayout(rel.type)
                /\ resolve_target(dirname(master_part), rel.target) = layout_part
            Kept(rel) == ~Removed(rel)
            keep_rels == SelectSeq(relationships, Kept)
            removed_ids == {relationships[i].id : i \in {j \in DOMAIN relationships :
                                Removed(relationships[j])}}
        IN  IF removed_ids = {} THEN [pkg |-> p, updated |-> 0]
            ELSE
            LET p1 == write_part(p, rels_part, serialize_relationships(keep_rels))
                root == read_part(p1, master_part)
                KeptId(layout_id) == layout_id.rid \notin removed_ids
                root1 == IF root.sldLayoutIdLst.present
                         THEN [root EXCEPT !.sldLayoutIdLst.items =
                                                SelectSeq(@, KeptId)]
                         ELSE root
            IN  [pkg |-> write_part(p1, master_part, root1), updated |-> 1]

\* a loop that stops at the first master it has updated
RECURSIVE remove_layout_loop_first(_, _, _)
remove_layout_loop_first(p, masters, layout_part) ==
    IF masters = <<>> THEN [pkg |-> p, updated |-> 0]
    ELSE LET r == remove_layout_from_master(p, Head(masters), layout_part)
         IN  IF r.updated > 0 THEN r
             ELSE remove_layout_loop_first(r.pkg, Tail(masters), layout_part)

RECURSIVE remove_layout_loop(_, _, _)
remove_layout_loop(p, masters, layout_part) ==
    IF masters = <<>> THEN [pkg |-> p, updated |-> 0]
    ELSE LET r == remove_layout_from_master(p, Head(masters), layout_part)
             s == remove_layout_loop(r.pkg, Tail(masters), layout_part)
         IN  [pkg |-> s.pkg, updated |-> r.updated + s.updated]

\* _remove_layout_from_masters: [pkg, updated]
remove_layout_from_masters(p, layout_part) ==
    remove_layout_loop(p, master_parts(p), layout_part)

\* the loop of prune_unused_layouts over the unused layouts: [pkg, updated]
RECURSIVE prune_loop(_, _)
prune_loop(p, unused) ==
    IF unused = <<>> THEN [pkg |-> p, updated |-> 0]
    ELSE LET layout == Head(unused)
             r == remove_layout_from_masters(p, layout)
             p1 == delete_part(r.pkg, layout)
             rels_part == rels_part_for(layout)
             p2 == IF has_part(p1, rels_part) THEN delete_part(p1, rels_part)
                   ELSE p1
             p3 == remove_override(p2, layout)
             s == prune_loop(p3, Tail(unused))
         IN  [pkg |-> s.pkg, updated |-> r.updated + s.updated]

\* the layouts prune_unused_layouts takes for used: one per slide
used_layouts(p) ==
    LET slide_parts == slide_parts_in_order(p)
    IN  {slide_layout_part(p, slide_parts[i]).part :
            i \in {j \in DOMAIN slide_parts :
                     slide_layout_part(p, slide_parts[j]).found}}

\* prune_unused_layouts: [pkg, err, ret]
prune_unused_layouts(p, keep_layouts) ==
    LET used == used_layouts(p)
        Unused(layout) == layout \notin used /\ layout \notin keep_layouts
        unused == SelectSeq(layout_parts(p), Unused)
        r == prune_loop(p, unused)
    IN  [pkg |-> r.pkg, err |-> "ok",
         ret |-> [removed_layouts |-> unused, unused_layouts |-> unused,
                  masters_updated |-> r.updated]]

-----------------------------------------------------------------------------
(* reindex_layouts.  A dict is a sequence of [key, value] in insertion     *)
(* order: items() walks it in that order.                                  *)

Keys(d) == {d[i].key : i \in DOMAIN d}
Values(d) == {d[i].value : i \in DOMAIN d}
Get(d, k) == d[CHOOSE i \in DOMAIN d : d[i].key = k].value
\* d[k] = v
Put(d, k, v) ==
    IF k \in Keys(d)
    THEN [i \in DOMAIN d |-> IF d[i].key = k THEN [key |-> k, value |-> v] ELSE d[i]]
    ELSE Append(d, [key |-> k, value |-> v])

\* _master_layout_order
master_layout_order(p, master_part) ==
    LET rels_part == rels_part_for(master_part)
    IN  IF ~has_part(p, rels_part) THEN <<>>
        ELSE
        LET rels == parse_relationships(read_part(p, rels_part))
            root == read_part(p, master_part)
            \* rel_map = {rel.id: rel}: the last relationship with an id wins
            RelOf(rid) == LET hits == {i \in DOMAIN rels : rels[i].id = rid}
                          IN  rels[CHOOSE i \in hits : \A j \in hits : j <= i]
            Bound(node) == \E i \in DOMAIN rels : rels[i].id = node.rid
            nodes == IF root.sldLayoutIdLst.present
                     THEN SelectSeq(root.sldLayoutIdLst.items, Bound)
                     ELSE <<>>
        IN  [i \in DOMAIN nodes |->
                resolve_target(dirname(master_part), RelOf(nodes[i].rid).target)]

\* an inner loop that lets the later master's name replace the earlier one
RECURSIVE map_order_overwriting(_, _, _)
map_order_overwriting(mapping, order, idx) ==
    IF order = <<>> THEN [err |-> "ok", mapping |-> mapping]
    ELSE map_order_overwriting(Put(mapping, Head(order), LayoutPart(idx)),
                               Tail(order), idx + 1)

\* the inner loop of _build_layout_reindex_map, over one master's order,
\* idx counting from `idx`: [err, mapping]
RECURSIVE map_order(_, _, _)
map_order(mapping, order, idx) ==
    IF order = <<>> THEN [err |-> "ok", mapping |-> mapping]
    ELSE LET layout_part == Head(order)
             new_name == LayoutPart(idx)
         IN  IF layout_part \in Keys(mapping) /\ Get(mapping, layout_part) # new_name
             THEN [err |-> "ValueError: Layout already mapped", mapping |-> mapping]
             ELSE map_order(Put(mapping, layout_part, new_name), Tail(order), idx + 1)

\* the outer loop of _build_layout_reindex_map: enumerate(order, start=1)
\* starts again at 1 for every master
RECURSIVE map_masters(_, _, _)
map_masters(p, mapping, masters) ==
    IF masters = <<>> THEN [err |-> "ok", mapping |-> mapping]
    ELSE LET order == master_layout_order(p, Head(masters))
             r == map_order(mapping, order, 1)
         IN  IF r.err # "ok" THEN r
             ELSE map_masters(p, r.mapping, Tail(masters))

\* _build_layout_reindex_map: [err, mapping]
build_layout_reindex_map(p) ==
    IF layout_parts(p) = <<>> THEN [err |-> "ok", mapping |-> <<>>]
    ELSE map_masters(p, <<>>, master_parts(p))

\* the first loop of _rename_layout_parts: a temporary name for every
\* layout whose name changes; the counter skips names that exist or are taken
RECURSIVE temp_names(_, _, _, _)
temp_names(p, items, temp_mapping, counter) ==
    IF items = <<>> THEN temp_mapping
    ELSE IF Head(items).key = Head(items).value
    THEN temp_names(p, Tail(items), temp_mapping, counter)
    ELSE LET Free(c) == /\ ~has_part(p, TempLayoutPart(c))
                        /\ TempLayoutPart(c) \notin Values(temp_mapping)
             limit == counter + Cardinality(DOMAIN p.parts) + Len(temp_mapping)
             c == CHOOSE n \in counter..limit :
                     Free(n) /\ \A k \in counter..(n - 1) : ~Free(k)
         IN  temp_names(p, Tail(items),
                        Put(temp_mapping, Head(items).key, TempLayoutPart(c)), c + 1)

\* a part and its sidecar moved from one name to another
move_part(p, from, to) ==
    LET p1 == delete_part(write_part(p, to, read_part(p, from)), from)
        from_rels == rels_part_for(from)
    IN  IF has_part(p1, from_rels)
        THEN delete_part(write_part(p1, rels_part_for(to), read_part(p1, from_rels)),
                         from_rels)
        ELSE p1

\* the second loop of _rename_layout_parts: old -> temp: [pkg, err]
RECURSIVE rename_to_temp(_, _)
rename_to_temp(p, temp_items) ==
    IF temp_items = <<>> THEN [pkg |-> p, err |-> "ok"]
    ELSE LET old == Head(temp_items).key
             temp == Head(temp_items).value
         IN  IF ~has_part(p, old)
             THEN [pkg |-> p, err |-> "KeyError: Part not found"]
             ELSE rename_to_temp(remove_override(move_part(p, old, temp), old),
                                 Tail(temp_items))

\* the third loop of _rename_layout_parts: temp -> new: [pkg, err]
RECURSIVE rename_to_final(_, _, _)
rename_to_final(p, items, temp_mapping) ==
    IF items = <<>> THEN [pkg |-> p, err |-> "ok"]
    ELSE LET old == Head(items).key
             new == Head(items).value
             p1 == IF old = new THEN p
                   ELSE move_part(p, Get(temp_mapping, old), new)
             o == ensure_override(p1, new, SLIDE_LAYOUT_CONTENT_TYPE)
         IN  IF o.err # "ok" THEN [pkg |-> o.pkg, err |-> o.err]
             ELSE rename_to_final(o.pkg, Tail(items), temp_mapping)

\* _rename_layout_parts: [pkg, err]
rename_layout_parts(p, mapping) ==
    IF mapping = <<>> THEN [pkg |-> p, err |-> "ok"]
    ELSE LET temp_mapping == temp_names(p, mapping, <<>>, 1)
             r == rename_to_temp(p, temp_mapping)
         IN  IF r.err # "ok" THEN r
             ELSE rename_to_final(r.pkg, mapping, temp_mapping)

\* _update_slide_layout_relationships, for one slide: [pkg, updated]
update_slide(p, slide_part, mapping) ==
    LET rels_part == rels_part_for(slide_part)
    IN  IF ~has_part(p, rels_part) THEN [pkg |-> p, updated |-> 0]
        ELSE
        LET rels == parse_relationships(read_part(p, rels_part))
            Target(rel) == resolve_target(dirname(slide_part), rel.target)
            Hit(rel) == EndsWithSlideLayout(rel.type) /\ Target(rel) \in Keys(mapping)
            new_rels == [i \in DOMAIN rels |->
                            IF Hit(rels[i])
                            THEN [rels[i] EXCEPT !.target =
                                    rel_target(slide_part, Get(mapping, Target(rels[i])))]
                            ELSE rels[i]]
        IN  IF \E i \in DOMAIN rels : Hit(rels[i])
            THEN [pkg |-> write_part(p, rels_part, serialize_relationships(new_rels)),
                  updated |-> 1]
            ELSE [pkg |-> p, updated |-> 0]

RECURSIVE update_slides(_, _, _)
update_slides(p, slide_parts, mapping) ==
    IF slide_parts = <<>> THEN [pkg |-> p, updated |-> 0]
    ELSE LET r == update_slide(p, Head(slide_parts), mapping)
             s == update_slides(r.pkg, Tail(slide_parts), mapping)
         IN  [pkg |-> s.pkg, updated |-> r.updated + s.updated]

\* _update_slide_layout_relationships: [pkg, updated]
update_slide_layout_relationships(p, mapping) ==
    update_slides(p, slide_parts_in_order(p), mapping)

\* the loop of _reindex_master_layouts that builds new_layout_rels: each layout
\* of the order gets the next rId<N> that used_ids does not hold
RECURSIVE new_layout_rels_for(_, _, _, _, _)
new_layout_rels_for(master_part, order, mapping, used_ids, next_idx) ==
    IF order = <<>> THEN <<>>
    ELSE LET layout_part == Head(order)
             new_part == IF layout_part \in Keys(mapping)
                         THEN Get(mapping, layout_part) ELSE layout_part
             idx == CHOOSE n \in next_idx..(next_idx + Cardinality(used_ids)) :
                       n \notin used_ids
                       /\ \A k \in next_idx..(n - 1) : k \in used_ids
         IN  <<Relationship(idx, SLIDE_LAYOUT_REL,
                            rel_target(master_part, new_part), None)>>
             \o new_layout_rels_for(master_part, Tail(order), mapping,
                                    used_ids \cup {idx}, idx + 1)

\* a non_layout that keeps the slideLayout relationships too
non_layout_rels_all(rels) == rels

\* non_layout of _reindex_master_layouts: the relationships whose type does
\* not end with "/slideLayout"
non_layout_rels(rels) ==
    LET NonLayout(rel) == ~EndsWithSlideLayout(rel.type)
    IN  SelectSeq(rels, NonLayout)

\* _reindex_master_layouts, for one master: [pkg, updated]
reindex_master(p, master_part, mapping) ==
    LET order == master_layout_order(p, master_part)
    IN  IF order = <<>> THEN [pkg |-> p, updated |-> 0]
        ELSE
        LET rels_part == rels_part_for(master_part)
            rels == IF has_part(p, rels_part)
                    THEN parse_relationships(read_part(p, rels_part)) ELSE <<>>
            non_layout == non_layout_rels(rels)
            used_ids == {non_layout[i].id : i \in DOMAIN non_layout}
            new_layout_rels == new_layout_rels_for(master_part, order, mapping,
                                                   used_ids, 1)
            p1 == write_part(p, rels_part,
                             serialize_relationships(non_layout \o new_layout_rels))
            root == read_part(p1, master_part)
            \* zip(nodes, new_layout_rels): the i-th node gets the i-th new id
            nodes == root.sldLayoutIdLst.items
            root1 == IF root.sldLayoutIdLst.present
                     THEN [root EXCEPT !.sldLayoutIdLst.items =
                            [i \in DOMAIN nodes |->
                                IF i <= Len(new_layout_rels)
                                THEN [id |-> nodes[i].id,
                                      rid |-> new_layout_rels[i].id]
                                ELSE nodes[i]]]
                     ELSE root
        IN  [pkg |-> write_part(p1, master_part, root1), updated |-> 1]

RECURSIVE reindex_masters(_, _, _)
reindex_masters(p, masters, mapping) ==
    IF masters = <<>> THEN [pkg |-> p, updated |-> 0]
    ELSE LET r == reindex_master(p, Head(masters), mapping)
             s == reindex_masters(r.pkg, Tail(masters), mapping)
         IN  [pkg |-> s.pkg, updated |-> r.updated + s.updated]

\* _reindex_master_layouts: [pkg, updated]
reindex_master_layouts(p, mapping) ==
    reindex_masters(p, master_parts(p), mapping)

\* reindex_layouts: [pkg, err, ret]
reindex_layouts(p) ==
    LET m == build_layout_reindex_map(p)
    IN  IF m.err # "ok" THEN [pkg |-> p, err |-> m.err, ret |-> None]
        ELSE IF m.mapping = <<>>
        THEN [pkg |-> p, err |-> "ok",
              ret |-> [layout_mapping |-> <<>>, masters_updated |-> 0,
                       slides_updated |-> 0]]
        ELSE
        LET r == rename_layout_parts(p, m.mapping)
        IN  IF r.err # "ok" THEN [pkg |-> r.pkg, err |-> r.err, ret |-> None]
            ELSE
            LET s == update_slide_layout_relationships(r.pkg, m.mapping)
                t == reindex_master_layouts(s.pkg, m.mapping)
            IN  [pkg |-> t.pkg, err |-> "ok",
                 ret |-> [layout_mapping |-> m.mapping,
                          masters_updated |-> t.updated,
                          slides_updated |-> s.updated]]

-----------------------------------------------------------------------------
(* Selectors.  A selector string is [kind, path, index, name]:             *)
(*   kind "path"   it starts with the directory of the parts looked for    *)
(*   kind "digits" selector.isdigit(), index = int(selector)               *)
(*   kind "name"   anything else                                           *)

\* resolve_layout_part: [err, part]
resolve_layout_part(p, selector) ==
    LET layouts == layout_parts(p)
        named == {i \in DOMAIN layouts : read_part(p, layouts[i]).name = selector.name}
    IN  IF selector.kind = "path"
        THEN IF ~has_part(p, selector.path)
             THEN [err |-> "ValueError: Layout not found", part |-> None]
             ELSE [err |-> "ok", part |-> selector.path]
        ELSE IF selector.kind = "digits"
        THEN IF selector.index < 1 \/ selector.index > Len(layouts)
             THEN [err |-> "ValueError: Layout index out of range", part |-> None]
             ELSE [err |-> "ok", part |-> layouts[selector.index]]
        ELSE IF named # {}
        THEN [err |-> "ok", part |-> layouts[CHOOSE i \in named : \A j \in named : i <= j]]
        ELSE [err |-> "ValueError: Layout not found", part |-> None]

\* resolve_master_part: [err, part]
resolve_master_part(p, selector) ==
    IF selector.kind = "path"
    THEN IF ~has_part(p, selector.path)
         THEN [err |-> "ValueError: Master not found", part |-> None]
         ELSE [err |-> "ok", part |-> selector.path]
    ELSE IF selector.kind = "digits"
    THEN master_part_by_index(p, selector.index)
    ELSE [err |-> "ValueError: Master not found", part |-> None]


-----------------------------------------------------------------------------
(* template.py: PotxTemplate.  The template holds the package, the path    *)
(* of its theme part and the theme object: <<>> while _theme is None,      *)
(* <<theme>> once the theme has been read.                                 *)

THEME_CONTENT_TYPE == "application/vnd.openxmlformats-officedocument.theme+xml"

\* _find_theme_part: [err, part]
find_theme_part(p) ==
    LET candidates == {name \in list_parts(p) :
                          name.dir = <<"ppt", "theme">> /\ name.ext = <<"xml">>}
    IN  IF candidates = {}
        THEN [err |-> "KeyError: No theme part found in package", part |-> None]
        ELSE [err |-> "ok",
              part |-> IF ThemePart(1) \in candidates THEN ThemePart(1)
                       ELSE sorted(candidates)[1]]

\* an _ensure_theme_relationship that does nothing
ensure_theme_relationship_skipped(p, theme_path) == p

\* PotxTemplate._ensure_theme_relationship: the package afterwards
ensure_theme_relationship(p, theme_path) ==
    IF ~has_part(p, PRESENTATION_PART) THEN p
    ELSE ensure_relationship(p, PRESENTATION_PART, THEME_REL,
                             rel_target(PRESENTATION_PART, theme_path)).pkg

\* PotxTemplate.save: [pkg, err, ret], ret the entries of the archive written
template_save(p, theme_path, theme) ==
    LET p1 == IF theme # <<>> THEN write_part(p, theme_path, theme[1]) ELSE p
        p2 == ensure_theme_relationship(p1, theme_path)
        o == ensure_override(p2, normalize_part_name(theme_path), THEME_CONTENT_TYPE)
    IN  IF o.err # "ok" THEN [pkg |-> o.pkg, err |-> o.err, ret |-> None]
        ELSE [pkg |-> o.pkg, err |-> "ok", ret |-> save_bytes(o.pkg)]
-----------------------------------------------------------------------------
(* The containers the runs start from: a deck of two slides, two masters   *)
(* and two layouts as an archive holds it.  Every relationship target is   *)
(* a part, every master's layout-id list and slideLayout relationships     *)
(* pair off; every layout is listed by a master, but in one deck.          *)

SlideNums == {1, 2}
MasterNums == {1, 2}

\* what a container has beside the plain deck
Features == {"plain", "strictType", "image", "slideLink", "slideNoRels",
             "slideNoBody", "layoutNoBody", "noContentTypes", "masterNoRels",
             "orphanLayout", "outsideBody"}

RECURSIVE SetToSeq(_)
SetToSeq(S) ==
    IF S = {} THEN <<>>
    ELSE LET m == CHOOSE x \in S : \A y \in S : x <= y
         IN  <<m>> \o SetToSeq(S \ {m})

Internal(id, type, target) ==
    [Id |-> id, Type |-> type, Target |-> target, TargetMode |-> Absent]

Sidecar(rels) == [tag |-> "Relationships", Relationship |-> rels]

Body(tok, rids) == [present |-> TRUE, tok |-> tok, rids |-> rids]
NoBody == [present |-> FALSE, tok |-> 0, rids |-> {}]

\* the relationship ids of a master's layouts: rId1, rId3, rId4, ...
\* (rId2 is the theme's)
LayoutRid(k) == IF k < 2 THEN k ELSE k + 1

\* the master's sidecar lists its layouts by number; its layout-id list
\* holds them in the order `list`
MasterRels(m, list) ==
    LET byNum == SetToSeq(Range(list))
    IN  [k \in DOMAIN byNum |->
            Internal(LayoutRid(k), SLIDE_LAYOUT_REL,
                     rel_target(MasterPart(m), LayoutPart(byNum[k])))]
        \o <<Internal(2, THEME_REL, rel_target(MasterPart(m), ThemePart(1)))>>

MasterXml(list) ==
    LET byNum == SetToSeq(Range(list))
        RidOf(n) == LayoutRid(CHOOSE k \in DOMAIN byNum : byNum[k] = n)
    IN  [tag |-> "sldMaster",
         sldLayoutIdLst |->
            [present |-> TRUE,
             items |-> [i \in DOMAIN list |->
                          [id |-> 255 + i, rid |-> RidOf(list[i])]]]]

\* the parts of a container, in archive order, as <<name, bytes>>: the
\* layouts `nums`, master m listing lists[m], slide n on layout slideLayout[n]
Entries(nums, lists, slideLayout, feature) ==
    LET Listing(n) == {m \in MasterNums : n \in Range(lists[m])}
        OwnerOf(n) == IF Listing(n) = {} THEN 1
                      ELSE CHOOSE m \in Listing(n) : \A k \in Listing(n) : m <= k
        layoutType == IF feature = "strictType" THEN STRICT_SLIDE_LAYOUT_REL
                      ELSE SLIDE_LAYOUT_REL
        extra == IF feature = "image"
                 THEN <<Internal(2, IMAGE_REL, rel_target(SlidePart(1), MediaPart(1)))>>
                 ELSE IF feature = "slideLink"
                 THEN <<Internal(2, SLIDE_REL, rel_target(SlidePart(1), SlidePart(2)))>>
                 ELSE IF feature = "outsideBody"
                 THEN <<Internal(2, IMAGE_REL, rel_target(SlidePart(1), MediaPart(1))),
                        Internal(3, IMAGE_REL, rel_target(SlidePart(1), MediaPart(2)))>>
                 ELSE <<>>
        SlideEntries(n) ==
            <<  <<SlidePart(n),
                  [tag |-> "sld",
                   cSld |-> IF feature = "slideNoBody" /\ n = 2 THEN NoBody
                            ELSE Body(n, IF n = 1 /\ extra # <<>> THEN {2} ELSE {}),
                   rids |-> IF feature = "outsideBody" /\ n = 1 THEN {3} ELSE {}]>>  >>
            \o (IF feature = "slideNoRels" /\ n = 2 THEN <<>>
                ELSE << <<rels_part_for(SlidePart(n)),
                          Sidecar(<<Internal(1, IF n = 1 THEN layoutType
                                                ELSE SLIDE_LAYOUT_REL,
                                       rel_target(SlidePart(n),
                                                  LayoutPart(slideLayout[n])))>>
                                  \o (IF n = 1 THEN extra ELSE <<>>))>> >>)
        MasterEntries(m) ==
            <<  <<MasterPart(m), MasterXml(lists[m])>>  >>
            \o (IF feature = "masterNoRels" /\ m = 2 THEN <<>>
                ELSE << <<rels_part_for(MasterPart(m)),
                          Sidecar(MasterRels(m, lists[m]))>> >>)
        LayoutEntries(n) ==
            <<  <<LayoutPart(n),
                  [tag |-> "sldLayout", name |-> "Layout", rest |-> n,
                   cSld |-> IF feature = "layoutNoBody" /\ n = 1 THEN NoBody
                            ELSE Body(10 + n, {})]>>,
                <<rels_part_for(LayoutPart(n)),
                  Sidecar(<<Internal(1, SLIDE_MASTER_REL,
                              rel_target(LayoutPart(n), MasterPart(OwnerOf(n))))>>)>> >>
        layoutSeq == SetToSeq(nums)
        overrides ==
            <<PRESENTATION_PART, SlidePart(1), SlidePart(2), MasterPart(1),
              MasterPart(2)>> \o [i \in DOMAIN layoutSeq |-> LayoutPart(layoutSeq[i])]
            \o <<ThemePart(1)>>
    IN  (IF feature = "noContentTypes" THEN <<>>
         ELSE << <<CONTENT_TYPES_PART,
                   [tag |-> "Types",
                    Default |-> <<[Extension |-> <<"r", "e", "l", "s">>,
                                   ContentType |-> "rels"],
                                  [Extension |-> <<"x", "m", "l">>,
                                   ContentType |-> "xml"]>>,
                    Override |-> [i \in DOMAIN overrides |->
                        [PartName |-> normalize_part_name(overrides[i]),
                         ContentType |-> overrides[i].stem]]]>> >>)
        \o <<  <<PRESENTATION_PART, [tag |-> "presentation", sldIdLst |-> <<1, 2>>]>>,
               <<rels_part_for(PRESENTATION_PART),
                 Sidecar(<<Internal(1, SLIDE_REL,
                                    rel_target(PRESENTATION_PART, SlidePart(1))),
                           Internal(2, SLIDE_REL,
                                    rel_target(PRESENTATION_PART, SlidePart(2))),
                           Internal(3, SLIDE_MASTER_REL,
                                    rel_target(PRESENTATION_PART, MasterPart(1))),
                           Internal(4, SLIDE_MASTER_REL,
                                    rel_target(PRESENTATION_PART, MasterPart(2)))>>)>> >>
        \o SlideEntries(1) \o SlideEntries(2)
        \o MasterEntries(1) \o MasterEntries(2)
        \o LayoutEntries(layoutSeq[1]) \o LayoutEntries(layoutSeq[2])
        \o <<  <<ThemePart(1), [tag |-> "theme"]>>  >>
        \o (IF feature \in {"image", "outsideBody"}
            THEN << <<MediaPart(1), [tag |-> "png"]>> >> ELSE <<>>)
        \o (IF feature = "outsideBody"
            THEN << <<MediaPart(2), [tag |-> "png"]>> >> ELSE <<>>)

\* ZipFile.read(name): the data of the last entry of that name
zip_read(entries, name) ==
    LET last == CHOOSE i \in DOMAIN entries :
                    /\ entries[i][1] = name
                    /\ \A j \in DOMAIN entries : entries[j][1] = name => j <= i
    IN  entries[last][2]

\* OOXMLPackage.__init__ / _load: the entries of the archive, in its order;
\* _order takes the name of every entry, _parts what the archive reads
\* under that name
load(entries) ==
    [parts |-> [name \in {entries[i][1] : i \in DOMAIN entries} |->
                  zip_read(entries, name)],
     order |-> [i \in DOMAIN entries |-> entries[i][1]]]

\* the plain decks: the numbers of the layout parts and each master's
\* layout-id list.  One master lists both layouts in either order, or each
\* master lists one, or both masters list the same layout.
PlainDecks ==
    {<<{1, 2}, lists, "plain">> :
        lists \in {<< <<1, 2>>, <<>> >>, << <<2, 1>>, <<>> >>,
                   << <<1>>, <<2>> >>, << <<2>>, <<1>> >>,
                   << <<1, 2>>, <<2>> >>}}
    \cup
    {<<{1, 3}, lists, "plain">> :
        lists \in {<< <<1, 3>>, <<>> >>, << <<3, 1>>, <<>> >>,
                   << <<1>>, <<3>> >>, << <<3>>, <<1>> >>}}

\* the decks with a feature: the first master lists both layouts, or, in
\* the deck with a layout no master lists, the second layout only
FeatureDecks ==
    {<<{1, 2}, << <<1, 2>>, <<>> >>, feature>> :
        feature \in Features \ {"plain", "orphanLayout", "outsideBody"}}
    \cup {<<{1, 2}, << <<2>>, <<>> >>, "orphanLayout">>}

\* slide n is on the n-th layout
Containers ==
    {load(Entries(d[1], d[2], [n \in SlideNums |-> SetToSeq(d[1])[n]], d[3])) :
        d \in PlainDecks \cup FeatureDecks}

\* calls one run makes
MaxCalls == 3

Init ==
    /\ pkg \in Containers
    /\ op = "load"
    /\ args = <<>>
    /\ err = "ok"
    /\ ret = <<>>
    /\ calls = 0

\* the arguments the calls are made with
SlideNumbers == 0..3
MasterIndexes == 0..3
Names == {"X"}
SlideNumberLists == {<<1>>, <<2>>, <<1, 2>>, <<3>>, <<1, 3>>}
\* selectors: "0" .. "4", and a name
DigitSelectors ==
    {[kind |-> "digits", path |-> None, index |-> i, name |-> None] : i \in 0..4}
LayoutSelectors ==
    DigitSelectors
    \cup {[kind |-> "name", path |-> None, index |-> 0, name |-> n] : n \in Names}

\* the layout parts the callers hold: what resolve_layout_part returns
ResolvedLayouts(p) ==
    {resolve_layout_part(p, selector).part :
        selector \in {s \in LayoutSelectors : resolve_layout_part(p, s).err = "ok"}}

\* an exception is not caught by the callers: it ends the run
Running == err = "ok" /\ calls < MaxCalls

\* assign_slides_to_layout, write_relationships, write_part and delete_part
\* return None
Returned(name, r) ==
    IF r.err # "ok" \/ name \in {"assign_slides_to_layout", "write_relationships",
                                "write_part", "delete_part"}
    THEN <<>> ELSE <<r.ret>>

Called(name, arguments, r) ==
    /\ pkg' = r.pkg
    /\ op' = name
    /\ args' = arguments
    /\ err' = r.err
    /\ ret' = Returned(name, r)
    /\ calls' = calls + 1

MakeLayoutFromSlide ==
    /\ Running
    /\ \E slide_number \in SlideNumbers, name \in Names, master_index \in MasterIndexes :
          Called("make_layout_from_slide",
                 [slide_number |-> slide_number, name |-> name,
                  master_index |-> master_index],
                 make_layout_from_slide(pkg, slide_number, name, master_index))

AssignSlidesToLayout ==
    /\ Running
    /\ \E slide_numbers \in SlideNumberLists, layout_part \in ResolvedLayouts(pkg) :
          Called("assign_slides_to_layout",
                 [slide_numbers |-> slide_numbers, layout_part |-> layout_part],
                 assign_slides_to_layout(pkg, slide_numbers, layout_part))

\* keep_layouts: nothing, or one layout
PruneUnusedLayouts ==
    /\ Running
    /\ \E keep_layouts \in {{}} \cup {{l} : l \in ResolvedLayouts(pkg)} :
          Called("prune_unused_layouts",
                 [keep_layouts |-> keep_layouts],
                 prune_unused_layouts(pkg, keep_layouts))

ReindexLayouts ==
    /\ Running
    /\ Called("reindex_layouts", <<>>, reindex_layouts(pkg))

Next ==
    \/ MakeLayoutFromSlide
    \/ AssignSlidesToLayout
    \/ PruneUnusedLayouts
    \/ ReindexLayouts

Spec == Init /\ [][Next]_vars

-----------------------------------------------------------------------------
(* The relationship store on its own: ensure_relationship and              *)
(* write_relationships called on the parts of a deck whose first slide     *)
(* embeds an image.                                                        *)

\* calls one run makes
MaxRelCalls == 2

\* a slide (it has a sidecar) and the theme (it has none)
RelSources == {SlidePart(1), ThemePart(1)}
RelTypes == {IMAGE_REL, HYPERLINK_REL}
RelTargets == {rel_target(SlidePart(1), MediaPart(n)) : n \in 1..2}

\* the lists write_relationships is given: up to two relationships with
\* the ids rId1 and rId2
RelLists ==
    LET rels == {Relationship(id, IMAGE_REL, target, None) :
                    id \in 1..2, target \in RelTargets}
    IN  UNION {[1..n -> rels] : n \in 0..2}

InitRels ==
    /\ pkg \in {c \in Containers : has_part(c, MediaPart(1))}
    /\ op = "load"
    /\ args = <<>>
    /\ err = "ok"
    /\ ret = <<>>
    /\ calls = 0

EnsureRelationship ==
    /\ calls < MaxRelCalls
    /\ \E source_part \in RelSources, rel_type \in RelTypes, target \in RelTargets :
          LET e == ensure_relationship(pkg, source_part, rel_type, target)
          IN  Called("ensure_relationship",
                     [source_part |-> source_part, rel_type |-> rel_type,
                      target |-> target],
                     [pkg |-> e.pkg, err |-> "ok", ret |-> e.rel])

WriteRelationships ==
    /\ calls < MaxRelCalls
    /\ \E source_part \in RelSources, relationships \in RelLists :
          Called("write_relationships",
                 [source_part |-> source_part, relationships |-> relationships],
                 [pkg |-> write_relationships(pkg, source_part, relationships),
                  err |-> "ok", ret |-> None])

NextRels ==
    \/ EnsureRelationship
    \/ WriteRelationships

SpecRels == InitRels /\ [][NextRels]_vars


-----------------------------------------------------------------------------
(* The part store on its own: an archive is loaded, parts are written and  *)
(* deleted, and the package is saved.  An archive is the sequence of its   *)
(* entries <<name, data>>; a zip archive may hold a name more than once.   *)

\* calls one run makes
MaxStoreCalls == 3

StoreNames == {SlidePart(1), SlidePart(2)}
StoreData == {"x", "y"}
\* the names the calls are given: with and without a leading slash
StoreArguments == StoreNames \cup {[n EXCEPT !.abs = TRUE] : n \in StoreNames}
\* the archives of up to three entries
Archives == UNION {[1..n -> StoreNames \X StoreData] : n \in 0..3}

InitStore ==
    /\ \E data \in Archives :
          /\ pkg = load(data)
          /\ args = [data |-> data]
    /\ op = "load"
    /\ err = "ok"
    /\ ret = <<>>
    /\ calls = 0

WritePart ==
    /\ calls < MaxStoreCalls
    /\ \E name \in StoreArguments, data \in StoreData :
          Called("write_part", [name |-> name, data |-> data],
                 [pkg |-> write_part(pkg, name, data), err |-> "ok", ret |-> None])

DeletePart ==
    /\ calls < MaxStoreCalls
    /\ \E name \in StoreArguments :
          Called("delete_part", [name |-> name],
                 [pkg |-> delete_part(pkg, name), err |-> "ok", ret |-> None])

SaveBytes ==
    /\ calls < MaxStoreCalls
    /\ Called("save_bytes", <<>>,
              [pkg |-> pkg, err |-> "ok", ret |-> save_bytes(pkg)])

NextStore ==
    \/ WritePart
    \/ DeletePart
    \/ SaveBytes

SpecStore == InitStore /\ [][NextStore]_vars

-----------------------------------------------------------------------------
(* The content-type registry on its own: ensure_override, remove_override  *)
(* and ensure_default called on a deck, whose registry holds Defaults for  *)
(* rels and xml and may hold one for png, written png or PNG.              *)

\* calls one run makes
MaxTypeCalls == 3

PNG_CONTENT_TYPE == "image/png"

\* the registry of a container with one more Default
WithDefault(p, extension) ==
    write_part(p, CONTENT_TYPES_PART,
        [read_part(p, CONTENT_TYPES_PART) EXCEPT !.Default =
            Append(@, [Extension |-> extension, ContentType |-> PNG_CONTENT_TYPE])])

\* the deck with an image, its registry as it is or with a png Default, and
\* the deck without a registry
TypeContainers ==
    LET decks == {c \in Containers : has_part(c, MediaPart(1))}
    IN  decks
        \cup {WithDefault(c, extension) :
                 c \in decks, extension \in {<<"p", "n", "g">>, <<"P", "N", "G">>}}
        \cup {c \in Containers : ~has_part(c, CONTENT_TYPES_PART)}

\* a part with an Override, a part without, with and without the leading slash
OverrideArguments ==
    LET names == {LayoutPart(1), MediaPart(1)}
    IN  names \cup {normalize_part_name(n) : n \in names}
ContentTypeArguments == {SLIDE_LAYOUT_CONTENT_TYPE, PNG_CONTENT_TYPE}
Extensions == {<<"p", "n", "g">>, <<"P", "N", "G">>, <<".", "p", "n", "g">>,
               <<"x", "m", "l">>}

InitTypes ==
    /\ pkg \in TypeContainers
    /\ op = "load"
    /\ args = <<>>
    /\ err = "ok"
    /\ ret = <<>>
    /\ calls = 0

RunningTypes == err = "ok" /\ calls < MaxTypeCalls

EnsureOverride ==
    /\ RunningTypes
    /\ \E part_name \in OverrideArguments, content_type \in ContentTypeArguments :
          LET r == ensure_override(pkg, part_name, content_type)
          IN  Called("ensure_override",
                     [part_name |-> part_name, content_type |-> content_type],
                     [pkg |-> r.pkg, err |-> r.err, ret |-> r.changed])

RemoveOverride ==
    /\ RunningTypes
    /\ \E part_name \in OverrideArguments :
          Called("remove_override", [part_name |-> part_name],
                 [pkg |-> remove_override(pkg, part_name), err |-> "ok",
                  ret |-> has_override(pkg, part_name)])

EnsureDefault ==
    /\ RunningTypes
    /\ \E extension \in Extensions, content_type \in ContentTypeArguments :
          LET r == ensure_default(pkg, extension, content_type)
          IN  Called("ensure_default",
                     [extension |-> extension, content_type |-> content_type],
                     [pkg |-> r.pkg, err |-> r.err, ret |-> r.changed])

NextTypes ==
    \/ EnsureOverride
    \/ RemoveOverride
    \/ EnsureDefault

SpecTypes == InitTypes /\ [][NextTypes]_vars

-----------------------------------------------------------------------------
(* The template on its own: a deck is opened and saved, then saved again.  *)
(* The presentation of a deck has no theme relationship, or one with the   *)
(* id rId9; the registry has an Override for the theme, or none.           *)

\* saves one run makes
MaxSaves == 2

\* the deck with a theme relationship rId9 in the presentation's sidecar
WithThemeRel(p) ==
    write_relationships(p, PRESENTATION_PART,
        Append(get_relationships(p, PRESENTATION_PART),
               Relationship(9, THEME_REL,
                            rel_target(PRESENTATION_PART, ThemePart(1)), None)))

TemplateContainers ==
    Containers
    \cup {WithThemeRel(c) : c \in Containers}
    \cup {remove_override(c, ThemePart(1)) : c \in Containers}

\* the theme object of the template: None, or the theme after an edit
Themes == {<<>>, <<[tag |-> "theme-edited"]>>}

InitTemplate ==
    /\ pkg \in TemplateContainers
    /\ op = "open"
    /\ args = <<>>
    /\ err = "ok"
    /\ ret = <<>>
    /\ calls = 0

Save ==
    /\ err = "ok"
    /\ calls < MaxSaves
    /\ find_theme_part(pkg).err = "ok"
    /\ \E theme \in Themes :
          Called("save", [theme |-> theme],
                 template_save(pkg, find_theme_part(pkg).part, theme))

NextTemplate == Save

SpecTemplate == InitTemplate /\ [][NextTemplate]_vars

-----------------------------------------------------------------------------
(* make_layout_from_slide on its own, on decks whose first slide embeds    *)
(* an image in its body; in one of them the slide document also holds an   *)
(* r:embed outside its cSld.                                               *)

MakeContainers ==
    {load(Entries({1, 2}, lists, [n \in SlideNums |-> n], feature)) :
        lists \in {<< <<1, 2>>, <<>> >>, << <<1>>, <<2>> >>},
        feature \in {"image", "outsideBody"}}

InitMake ==
    /\ pkg \in MakeContainers
    /\ op = "load"
    /\ args = <<>>
    /\ err = "ok"
    /\ ret = <<>>
    /\ calls = 0

NextMake == MakeLayoutFromSlide

SpecMake == InitMake /\ [][NextMake]_vars

-----------------------------------------------------------------------------
(* slide_parts_in_order on its own: containers with the slides 1, 2 and    *)
(* 10, with or without the presentation part and its sidecar.  The         *)
(* sidecar binds rId1 to slide 2, rId2 to slide 1 and rId3 to a master;    *)
(* no relationship has the id rId4.                                        *)

\* entries of the slide-id list
MaxSlideIds == 3

\* the slide-id lists: the r:id of each sldId
SlideIdLists == UNION {[1..n -> 1..4] : n \in 0..MaxSlideIds}

SlideContainers ==
    {load((IF presentation
           THEN << <<PRESENTATION_PART,
                     [tag |-> "presentation", sldIdLst |-> sldIdLst]>> >>
           ELSE <<>>)
          \o (IF sidecar
              THEN << <<rels_part_for(PRESENTATION_PART),
                        Sidecar(<<Internal(1, SLIDE_REL,
                                     rel_target(PRESENTATION_PART, SlidePart(2))),
                                  Internal(2, SLIDE_REL,
                                     rel_target(PRESENTATION_PART, SlidePart(1))),
                                  Internal(3, SLIDE_MASTER_REL,
                                     rel_target(PRESENTATION_PART, MasterPart(1)))>>)>> >>
              ELSE <<>>)
          \o [i \in 1..3 |->
                LET n == <<2, 10, 1>>[i]
                IN  <<SlidePart(n), [tag |-> "sld", cSld |-> Body(n, {}), rids |-> {}]>>]
          \o << <<MasterPart(1), MasterXml(<<>>)>> >>) :
        presentation \in BOOLEAN, sidecar \in BOOLEAN, sldIdLst \in SlideIdLists}

InitSlides ==
    /\ pkg \in SlideContainers
    /\ op = "load"
    /\ args = <<>>
    /\ err = "ok"
    /\ ret = <<>>
    /\ calls = 0

\* one enumeration of the slides of the container
SlidePartsInOrder ==
    /\ op = "load"
    /\ Called("slide_parts_in_order", <<>>,
              [pkg |-> pkg, err |-> "ok", ret |-> slide_parts_in_order(pkg)])

NextSlides == SlidePartsInOrder

SpecSlides == InitSlides /\ [][NextSlides]_vars
-----------------------------------------------------------------------------
(* The relationship graph of a package.                                    *)

\* a relationship sidecar: <dir>/_rels/<base>.rels
IsSidecar(name) ==
    /\ name.dir # <<>>
    /\ name.dir[Len(name.dir)] = "_rels"
    /\ name.ext[Len(name.ext)] = "rels"

\* the directory the Internal targets of a sidecar are relative to
BaseDir(sidecar) == SubSeq(sidecar.dir, 1, Len(sidecar.dir) - 1)

\* every Internal relationship target of every sidecar is a part
TargetsResolve(p) ==
    \A s \in {q \in list_parts(p) : IsSidecar(q)} :
        \A i \in DOMAIN p.parts[s].Relationship :
            LET attrib == p.parts[s].Relationship[i]
            IN  attrib.TargetMode # "External"
                    => has_part(p, resolve_target(BaseDir(s), attrib.Target))

\* the sldLayoutId entries of a master
LayoutIdItems(p, master_part) ==
    LET root == read_part(p, master_part)
    IN  IF root.sldLayoutIdLst.present THEN root.sldLayoutIdLst.items ELSE <<>>

\* the master's layout-id list and its slideLayout relationships pair off:
\* every entry is bound to one slideLayout relationship of the sidecar, no two
\* entries to the same, and every slideLayout relationship to an entry
OneToOne(p, master_part) ==
    LET rels == get_relationships(p, master_part)
        layout_rels == {k \in DOMAIN rels : EndsWithSlideLayout(rels[k].type)}
        items == LayoutIdItems(p, master_part)
    IN  /\ \A i, j \in DOMAIN items : i # j => items[i].rid # items[j].rid
        /\ \A i \in DOMAIN items :
              Cardinality({k \in layout_rels : rels[k].id = items[i].rid}) = 1
        /\ \A k \in layout_rels : \E i \in DOMAIN items : items[i].rid = rels[k].id

-----------------------------------------------------------------------------
\* C1: every container the runs start from has every Internal relationship
\* target resolving to a part, and after every sequence of completed
\* make_layout_from_slide, assign_slides_to_layout, prune_unused_layouts and
\* reindex_layouts calls every Internal target of every sidecar is a part.
C1_TargetsResolve ==
    err = "ok" => TargetsResolve(pkg)

\* C2: every container the runs start from has each master's layout-id list
\* and slideLayout relationships paired one-to-one, and this holds for every
\* master after every sequence of completed calls.
C2_MastersOneToOne ==
    err = "ok" => \A m \in Range(master_parts(pkg)) : OneToOne(pkg, m)

\* C2: prune_unused_layouts has taken a layout off a master that holds an
\* entry make_layout_from_slide appended (the archives' ids are 256 and 257)
C2_Witness ==
    /\ op = "prune_unused_layouts"
    /\ err = "ok"
    /\ ret[1].masters_updated > 0
    /\ \E m \in Range(master_parts(pkg)) :
          \E i \in DOMAIN LayoutIdItems(pkg, m) : LayoutIdItems(pkg, m)[i].id > 257

\* the ids of every sidecar's relationships are pairwise distinct
IdsDistinct(p) ==
    \A s \in {q \in list_parts(p) : IsSidecar(q)} :
        \A i, j \in DOMAIN p.parts[s].Relationship :
            i # j => p.parts[s].Relationship[i].Id # p.parts[s].Relationship[j].Id

\* C3: after every sequence of ensure_relationship and write_relationships
\* calls, the ids within each part's relationship set are pairwise distinct.
C3_IdsDistinct ==
    IdsDistinct(pkg)

\* the exceptions of the kind OutOfRange
OutOfRange == {"ValueError: Slide number out of range",
               "ValueError: Master index out of range",
               "ValueError: Layout index out of range"}

\* C4: a slide number, master index or layout index outside 1..count, given
\* to make_layout_from_slide, to assign_slides_to_layout at any position of
\* its list, or to resolve_layout_part / resolve_master_part, makes the call
\* raise an OutOfRange error and leaves every part as it was.
C4_OutOfRangeWritesNothing ==
    err = "ok" =>
        LET slides == 1..Len(slide_parts_in_order(pkg))
            masters == 1..Len(master_parts(pkg))
            layouts == 1..Len(layout_parts(pkg))
        IN  /\ \A slide_number \in SlideNumbers, name \in Names,
                  master_index \in MasterIndexes :
                   (slide_number \notin slides \/ master_index \notin masters) =>
                       LET r == make_layout_from_slide(pkg, slide_number, name,
                                                       master_index)
                       IN  r.err \in OutOfRange /\ r.pkg = pkg
            /\ \A slide_numbers \in SlideNumberLists,
                  layout_part \in ResolvedLayouts(pkg) :
                   (\E i \in DOMAIN slide_numbers : slide_numbers[i] \notin slides) =>
                       LET r == assign_slides_to_layout(pkg, slide_numbers,
                                                        layout_part)
                       IN  r.err \in OutOfRange /\ r.pkg = pkg
            /\ \A selector \in DigitSelectors :
                   /\ selector.index \notin layouts =>
                         resolve_layout_part(pkg, selector).err \in OutOfRange
                   /\ selector.index \notin masters =>
                         resolve_master_part(pkg, selector).err \in OutOfRange

\* C5: when make_layout_from_slide raises and the slide has no sidecar, or
\* the slide or the template layout has no cSld, or [Content_Types].xml is
\* absent, no part has been created, overwritten or deleted.
C5_MakeFailsBeforeWriting ==
    err = "ok" =>
        \A slide_number \in DOMAIN slide_parts_in_order(pkg), name \in Names,
           master_index \in DOMAIN master_parts(pkg) :
            LET r == make_layout_from_slide(pkg, slide_number, name, master_index)
                slide_part == slide_parts_in_order(pkg)[slide_number]
                template == first_layout_for_master(pkg, master_parts(pkg)[master_index])
                NoBodyAt(part) == has_part(pkg, part) /\ ~read_part(pkg, part).cSld.present
            IN  (/\ r.err # "ok"
                 /\ \/ ~has_part(pkg, rels_part_for(slide_part))
                    \/ NoBodyAt(slide_part)
                    \/ template.err = "ok" /\ NoBodyAt(template.part)
                    \/ ~has_part(pkg, CONTENT_TYPES_PART))
                => r.pkg = pkg

\* the layouts the slides' relationships of a slideLayout type target
SlideLayoutTargets(p) ==
    UNION {{resolve_target(dirname(s), get_relationships(p, s)[i].target) :
                i \in {j \in DOMAIN get_relationships(p, s) :
                         EndsWithSlideLayout(get_relationships(p, s)[j].type)}} :
           s \in Range(slide_parts_in_order(p))}

\* what the masters hold of a layout: per master, its relationships that
\* target the layout and the layout-id entries bound to them
MasterRefs(p, layout_part) ==
    [m \in Range(master_parts(p)) |->
        LET rels == get_relationships(p, m)
            Targets(rel) ==
                /\ EndsWithSlideLayout(rel.type)
                /\ resolve_target(dirname(m), rel.target) = layout_part
            refs == SelectSeq(rels, Targets)
            Bound(item) == \E i \in DOMAIN refs : refs[i].id = item.rid
        IN  <<refs, SelectSeq(LayoutIdItems(p, m), Bound)>>]

\* a part is in both packages with the same content, or in neither
SamePart(p, q, name) ==
    /\ has_part(p, name) = has_part(q, name)
    /\ has_part(p, name) => read_part(p, name) = read_part(q, name)

\* C6: prune_unused_layouts(keep_layouts) removes exactly the layouts that no
\* slide's slideLayout relationship targets and keep_layouts does not name:
\* the part, its sidecar and its Override are gone; every other layout keeps
\* its part, its sidecar, its Override and what the masters hold of it.
C6_PruneRemovesExactlyUnused ==
    err = "ok" =>
        \A keep_layouts \in {{}} \cup {{l} : l \in ResolvedLayouts(pkg)} :
            LET q == prune_unused_layouts(pkg, keep_layouts).pkg
                targeted == SlideLayoutTargets(pkg)
            IN  \A layout \in Range(layout_parts(pkg)) :
                    IF layout \notin targeted /\ layout \notin keep_layouts
                    THEN /\ ~has_part(q, layout)
                         /\ ~has_part(q, rels_part_for(layout))
                         /\ ~has_override(q, layout)
                    ELSE /\ has_part(q, layout)
                         /\ SamePart(pkg, q, layout)
                         /\ SamePart(pkg, q, rels_part_for(layout))
                         /\ has_override(q, layout) = has_override(pkg, layout)
                         /\ MasterRefs(q, layout) = MasterRefs(pkg, layout)

\* C7: after a reindex_layouts that returns, every slideLayout relationship of
\* every slide resolves to a part that holds the content of the layout it
\* resolved to before the call.
C7_SlidesKeepTheirLayout ==
    err = "ok" =>
        LET r == reindex_layouts(pkg)
        IN  r.err = "ok" =>
                \A s \in Range(slide_parts_in_order(pkg)) :
                    \A i \in DOMAIN get_relationships(pkg, s) :
                        LET before == get_relationships(pkg, s)[i]
                            old == resolve_target(dirname(s), before.target)
                            new == resolve_target(dirname(s),
                                       get_relationships(r.pkg, s)[i].target)
                        IN  (EndsWithSlideLayout(before.type) /\ has_part(pkg, old))
                                => /\ has_part(r.pkg, new)
                                   /\ read_part(r.pkg, new) = read_part(pkg, old)

\* the slideLayout relationships of a master, in sidecar order
MasterLayoutRels(p, master_part) ==
    LET IsLayout(rel) == EndsWithSlideLayout(rel.type)
    IN  SelectSeq(get_relationships(p, master_part), IsLayout)

\* the part the relationship rId<rid> of a master resolves to
MasterTarget(p, master_part, rid) ==
    LET rels == get_relationships(p, master_part)
    IN  resolve_target(dirname(master_part),
                       rels[CHOOSE k \in DOMAIN rels : rels[k].id = rid].target)

\* some layout gets another name
Renames(mapping) == \E i \in DOMAIN mapping : mapping[i].key # mapping[i].value

\* C8: when reindex_layouts returns, the slideLayout relationships of every
\* master carry, in order, the smallest ids rId1, rId2, ... that the master's
\* other relationships do not use, and the i-th entry of its layout-id list
\* is bound to the one slideLayout relationship that targets the new name of
\* the layout the i-th entry resolved to before the call, a part that holds
\* the content of that layout.
C8_MasterRelationshipsRebuilt ==
    [][(op' = "reindex_layouts" /\ err' = "ok") =>
        \A m \in Range(master_parts(pkg')) :
            LET mapping == ret'[1].layout_mapping
                rels == get_relationships(pkg', m)
                layout_rels == MasterLayoutRels(pkg', m)
                other_ids == {rels[k].id : k \in {j \in DOMAIN rels :
                                 ~EndsWithSlideLayout(rels[j].type)}}
                before == LayoutIdItems(pkg, m)
                after == LayoutIdItems(pkg', m)
            IN  /\ \A i \in DOMAIN layout_rels :
                      /\ layout_rels[i].id \notin other_ids
                      /\ \A k \in 1..layout_rels[i].id :
                            \/ k \in other_ids
                            \/ \E j \in 1..i : layout_rels[j].id = k
                      /\ \A j \in 1..(i - 1) : layout_rels[j].id < layout_rels[i].id
                /\ Len(after) = Len(before)
                /\ \A i \in DOMAIN after :
                      LET old == MasterTarget(pkg, m, before[i].rid)
                          new == MasterTarget(pkg', m, after[i].rid)
                      IN  /\ after[i].id = before[i].id
                          /\ Cardinality({k \in DOMAIN layout_rels :
                                layout_rels[k].id = after[i].rid}) = 1
                          /\ new = Get(mapping, old)
                          /\ has_part(pkg', new)
                          /\ read_part(pkg', new) = read_part(pkg, old)
      ]_vars

\* C9: when reindex_layouts has returned, no name that a layout was renamed
\* away from and that is no layout's new name has an Override, and every new
\* name has one.
C9_OverridesFollowRenames ==
    (op = "reindex_layouts" /\ err = "ok") =>
        LET mapping == ret[1].layout_mapping
        IN  /\ \A i \in DOMAIN mapping :
                  (mapping[i].key # mapping[i].value
                   /\ mapping[i].key \notin Values(mapping))
                      => ~has_override(pkg, mapping[i].key)
            /\ \A new \in Values(mapping) : has_override(pkg, new)

\* C9: reindex_layouts has returned after renaming a layout away from a name
\* that no layout took
C9_Witness ==
    /\ op = "reindex_layouts"
    /\ err = "ok"
    /\ \E i \in DOMAIN ret[1].layout_mapping :
          /\ ret[1].layout_mapping[i].key # ret[1].layout_mapping[i].value
          /\ ret[1].layout_mapping[i].key \notin Values(ret[1].layout_mapping)

\* C10: a second reindex_layouts, called when the first has returned, returns
\* and leaves the package as the first left it: the same parts, each with
\* the same content, in the same order.
C10_ReindexIdempotent ==
    (op = "reindex_layouts" /\ err = "ok") =>
        LET r == reindex_layouts(pkg)
        IN  r.err = "ok" /\ r.pkg = pkg

\* C10: the first reindex_layouts has renamed a layout and rewritten a slide
\* and a master
C10_Witness ==
    /\ op = "reindex_layouts"
    /\ err = "ok"
    /\ Renames(ret[1].layout_mapping)
    /\ ret[1].slides_updated > 0
    /\ ret[1].masters_updated > 0


-----------------------------------------------------------------------------
\* the master make_layout_from_slide was called for
ChosenMaster(p, master_index) == master_part_by_index(p, master_index).part

\* C11: when make_layout_from_slide returns, the layout parts are those of
\* before and one more, the part it returns, whose name no part had; that
\* part has an Override; the layout-id list of the chosen master is the old
\* list and one more entry, bound to a relationship that resolves to the new
\* part; every other master and its sidecar are as they were.
C11_MakeAddsOneLayout ==
    [][(op' = "make_layout_from_slide" /\ err' = "ok") =>
        LET new == ret'[1]
            chosen == ChosenMaster(pkg, args'.master_index)
            before == LayoutIdItems(pkg, chosen)
            after == LayoutIdItems(pkg', chosen)
        IN  /\ ~has_part(pkg, new)
            /\ Range(layout_parts(pkg')) = Range(layout_parts(pkg)) \cup {new}
            /\ Len(layout_parts(pkg')) = Len(layout_parts(pkg)) + 1
            /\ has_override(pkg', new)
            /\ Len(after) = Len(before) + 1
            /\ SubSeq(after, 1, Len(before)) = before
            /\ MasterTarget(pkg', chosen, after[Len(after)].rid) = new
            /\ \A m \in Range(master_parts(pkg)) \ {chosen} :
                  /\ SamePart(pkg, pkg', m)
                  /\ SamePart(pkg, pkg', rels_part_for(m))
      ]_vars

\* C11: make_layout_from_slide has returned a layout made for the second of
\* two masters
C11_Witness ==
    /\ op = "make_layout_from_slide"
    /\ err = "ok"
    /\ args.master_index = 2
    /\ has_part(pkg, ret[1])
    /\ Len(master_parts(pkg)) = 2

-----------------------------------------------------------------------------
\* the names of the entries of an archive
EntryNames(entries) == {entries[i][1] : i \in DOMAIN entries}

\* C12: save_bytes called on a package just loaded writes an archive with
\* the part names of the archive loaded, and under each name the bytes the
\* archive loaded has under it.
C12_SaveLoadRoundTrip ==
    [][(op = "load" /\ op' = "save_bytes") =>
        /\ EntryNames(ret'[1]) = EntryNames(args.data)
        /\ \A name \in EntryNames(args.data) :
              zip_read(ret'[1], name) = zip_read(args.data, name)
      ]_vars

\* C12: an archive of two parts with different bytes has been loaded and
\* saved
C12_Witness ==
    /\ op = "save_bytes"
    /\ calls = 1
    /\ Len(ret[1]) = 2
    /\ ret[1][1][1] # ret[1][2][1]
    /\ ret[1][1][2] # ret[1][2][2]

\* the entries of an archive without those of one name
Without(entries, key) ==
    LET Other(entry) == entry[1] # key IN SelectSeq(entries, Other)

\* C13: save_bytes emits every part the package holds once, with its data,
\* and no other entry; the order of the entries is the order in which the
\* names were introduced: writing a part the package does not hold puts it
\* last, also when the part was deleted before; writing a part it holds
\* changes the data in place; deleting a part takes its entry out.
C13_SaveEmitsEachPartOnce ==
    [][LET before == save_bytes(pkg)
           after == save_bytes(pkg')
       IN  /\ op' = "save_bytes" =>
                 /\ EntryNames(ret'[1]) = list_parts(pkg')
                 /\ \A i, j \in DOMAIN ret'[1] :
                       i # j => ret'[1][i][1] # ret'[1][j][1]
                 /\ \A i \in DOMAIN ret'[1] :
                       ret'[1][i][2] = read_part(pkg', ret'[1][i][1])
           /\ op' = "write_part" =>
                 LET key == normalize_name(args'.name)
                 IN  IF has_part(pkg, key)
                     THEN after = [i \in DOMAIN before |->
                                     IF before[i][1] = key
                                     THEN <<key, args'.data>> ELSE before[i]]
                     ELSE after = Append(before, <<key, args'.data>>)
           /\ op' = "delete_part" =>
                 after = Without(before, normalize_name(args'.name))
      ]_vars

-----------------------------------------------------------------------------
\* C14: a second ensure_relationship with the source part, type and target
\* of the call that has just returned returns the relationship the first
\* returned, id included, and leaves the sidecar, and with it the number of
\* relationships, as it is.
C14_EnsureIdempotent ==
    op = "ensure_relationship" =>
        LET e == ensure_relationship(pkg, args.source_part, args.rel_type,
                                     args.target)
        IN  /\ e.rel = ret[1]
            /\ e.pkg = pkg
            /\ Len(get_relationships(e.pkg, args.source_part))
                  = Len(get_relationships(pkg, args.source_part))

\* C14: the first ensure_relationship has created the sidecar of a part
\* that had none, with a relationship rId1
C14_Witness ==
    /\ op = "ensure_relationship"
    /\ args.source_part = ThemePart(1)
    /\ get_relationships(pkg, ThemePart(1)) = <<ret[1]>>
    /\ ret[1].id = 1

-----------------------------------------------------------------------------
\* the Override and the Default entries of the registry
Overrides(p) == read_part(p, CONTENT_TYPES_PART).Override
Defaults(p) == read_part(p, CONTENT_TYPES_PART).Default

\* C15: ensure_override called for a path that has an Override, of whatever
\* content type, returns False and leaves the package as it is; called for
\* a path that has none it returns True and the registry holds the old
\* Overrides and after them one for that path with the content type given.
C15_EnsureOverrideFirstWriterWins ==
    [][(op' = "ensure_override" /\ err' = "ok") =>
        LET part == normalize_part_name(args'.part_name)
            before == Overrides(pkg)
        IN  IF \E i \in DOMAIN before : before[i].PartName = part
            THEN ret'[1] = FALSE /\ pkg' = pkg
            ELSE /\ ret'[1] = TRUE
                 /\ Overrides(pkg') =
                       Append(before, [PartName |-> part,
                                       ContentType |-> args'.content_type])
                 /\ Defaults(pkg') = Defaults(pkg)
      ]_vars

\* C15: ensure_override has returned False for a path whose Override has
\* another content type than the one given
C15_Witness ==
    /\ op = "ensure_override"
    /\ err = "ok"
    /\ ret[1] = FALSE
    /\ \E i \in DOMAIN Overrides(pkg) :
          /\ Overrides(pkg)[i].PartName = normalize_part_name(args.part_name)
          /\ Overrides(pkg)[i].ContentType # args.content_type

\* the extensions are the same but for the case of the letters and leading
\* dots
SameExtension(a, b) == lstrip_dot(lower(a)) = lstrip_dot(lower(b))

\* C16: ensure_default called with an extension that a Default of the
\* registry has, but for the case of the letters and a leading dot, returns
\* False and leaves the Default entries as they are.
C16_EnsureDefaultMatchesCaseInsensitively ==
    [][(op' = "ensure_default" /\ err' = "ok") =>
        LET before == Defaults(pkg)
        IN  (\E i \in DOMAIN before :
                SameExtension(before[i].Extension, args'.extension))
            => ret'[1] = FALSE /\ Defaults(pkg') = before
      ]_vars

-----------------------------------------------------------------------------
\* the theme relationships of the presentation
ThemeRels(p) ==
    LET IsTheme(rel) == rel.type = THEME_REL
    IN  SelectSeq(get_relationships(p, PRESENTATION_PART), IsTheme)

\* the Overrides of a part
OverridesOf(p, part) ==
    LET IsOf(override) == override.PartName = normalize_part_name(part)
    IN  SelectSeq(Overrides(p), IsOf)

\* C17: when save returns for a template whose presentation had no theme
\* relationship, the presentation's sidecar holds one, which resolves to the
\* theme part, and the theme part has an Override; a save that follows a
\* save leaves the theme relationships and the Overrides of the theme part
\* as they are.
C17_SaveEnsuresThemeRelationship ==
    [][(op' = "save" /\ err' = "ok") =>
        LET theme_path == find_theme_part(pkg).part
        IN  /\ (has_part(pkg, PRESENTATION_PART) /\ ThemeRels(pkg) = <<>>) =>
                  /\ Len(ThemeRels(pkg')) = 1
                  /\ resolve_target(dirname(PRESENTATION_PART),
                                    ThemeRels(pkg')[1].target) = theme_path
                  /\ Len(OverridesOf(pkg', theme_path)) = 1
            /\ op = "save" =>
                  /\ ThemeRels(pkg') = ThemeRels(pkg)
                  /\ OverridesOf(pkg', theme_path) = OverridesOf(pkg, theme_path)
                  /\ Len(get_relationships(pkg', PRESENTATION_PART))
                        = Len(get_relationships(pkg, PRESENTATION_PART))
      ]_vars

\* C17: the template has been saved twice; the first save gave the
\* presentation its theme relationship, rId5
C17_Witness ==
    /\ op = "save"
    /\ err = "ok"
    /\ calls = 2
    /\ Len(ThemeRels(pkg)) = 1
    /\ ThemeRels(pkg)[1].id = 5
    /\ has_override(pkg, ThemePart(1))

-----------------------------------------------------------------------------
\* the number of layouts the masters before the j-th list
RECURSIVE LayoutsBefore(_, _)
LayoutsBefore(p, j) ==
    IF j <= 1 THEN 0
    ELSE LayoutsBefore(p, j - 1)
         + Len(master_layout_order(p, master_parts(p)[j - 1]))

\* C18: reindex_layouts takes the masters in the order of their names and
\* gives the i-th layout of a master's layout-id list the name
\* slideLayout<k + i>.xml, k the number of layouts the masters before it
\* list: the numbers go on from master to master.
C18_NumberingContinuesAcrossMasters ==
    [][(op' = "reindex_layouts" /\ err' = "ok") =>
        LET mapping == ret'[1].layout_mapping
            masters == master_parts(pkg)
        IN  \A j \in DOMAIN masters :
                LET order == master_layout_order(pkg, masters[j])
                IN  \A i \in DOMAIN order :
                        /\ order[i] \in Keys(mapping)
                        /\ Get(mapping, order[i])
                              = LayoutPart(LayoutsBefore(pkg, j) + i)
      ]_vars

\* how many layout parts of a package hold the data
LayoutsHolding(p, data) ==
    Cardinality({q \in Range(layout_parts(p)) : read_part(p, q) = data})

\* C19: when reindex_layouts returns, no two layouts have been given one
\* name, no name given is that of a layout part the mapping does not move,
\* and the package holds as many layout parts as before, with the same
\* contents, each as often as before.
C19_ReindexLosesNoLayout ==
    [][(op' = "reindex_layouts" /\ err' = "ok") =>
        LET mapping == ret'[1].layout_mapping
            layouts == Range(layout_parts(pkg))
        IN  /\ \A i, j \in DOMAIN mapping :
                  i # j => mapping[i].value # mapping[j].value
            /\ Values(mapping) \cap (layouts \ Keys(mapping)) = {}
            /\ Len(layout_parts(pkg')) = Len(layout_parts(pkg))
            /\ \A q \in layouts :
                  LayoutsHolding(pkg', read_part(pkg, q))
                      = LayoutsHolding(pkg, read_part(pkg, q))
      ]_vars

-----------------------------------------------------------------------------
\* the renames of a batch: the entries that change the name
Renamed(mapping) == {i \in DOMAIN mapping : mapping[i].key # mapping[i].value}

\* a destination of a rename is the source of another rename
Collides(mapping) ==
    \E i, j \in Renamed(mapping) : i # j /\ mapping[i].value = mapping[j].key

\* a part with a temporary name
IsTemp(name) == name.stem = "_tmpLayout"

\* C20: when reindex_layouts returns after a batch of renames in which a
\* destination is the source of another rename, every destination holds the
\* bytes and the sidecar its source held before the call, and no part has
\* a temporary name.
C20_RenameIsCollisionSafe ==
    [][(op' = "reindex_layouts" /\ err' = "ok"
        /\ Collides(ret'[1].layout_mapping)) =>
        LET mapping == ret'[1].layout_mapping
        IN  /\ \A i \in Renamed(mapping) :
                  LET old == mapping[i].key
                      new == mapping[i].value
                  IN  /\ has_part(pkg', new)
                      /\ read_part(pkg', new) = read_part(pkg, old)
                      /\ has_part(pkg', rels_part_for(new))
                            = has_part(pkg, rels_part_for(old))
                      /\ has_part(pkg, rels_part_for(old)) =>
                            read_part(pkg', rels_part_for(new))
                               = read_part(pkg, rels_part_for(old))
            /\ \A name \in list_parts(pkg') : ~IsTemp(name)
      ]_vars
\* two masters hold the same layout part at different positions of their
\* layout orders, so the numbering gives it two names
MastersDisagree(p) ==
    \E m1 \in Range(master_parts(p)), m2 \in Range(master_parts(p)) :
        /\ m1 # m2
        /\ \E i \in DOMAIN master_layout_order(p, m1),
              j \in DOMAIN master_layout_order(p, m2) :
                /\ master_layout_order(p, m1)[i] = master_layout_order(p, m2)[j]
                /\ has_part(p, master_layout_order(p, m1)[i])
                /\ i # j

\* C21: when two masters disagree on the name of a layout part that exists,
\* reindex_layouts raises "Layout already mapped" and the package is as it
\* was before the call: no part renamed, written or deleted.
C21_DisagreementFailsBeforeAnyWrite ==
    [][(op' = "reindex_layouts" /\ MastersDisagree(pkg)) =>
          /\ err' = "ValueError: Layout already mapped"
          /\ ret' = <<>>
          /\ pkg' = pkg
      ]_vars

\* C21: reindex_layouts has raised on a package, changed by an earlier call,
\* whose masters disagree
C21_Witness ==
    /\ op = "reindex_layouts"
    /\ err = "ValueError: Layout already mapped"
    /\ calls >= 2
    /\ MastersDisagree(pkg)

\* the slideLayout relationships of a master that resolve to one of the
\* layouts `removed`
TargetsRemoved(master_part, rel, removed) ==
    /\ EndsWithSlideLayout(rel.type)
    /\ resolve_target(dirname(master_part), rel.target) \in removed

\* C22: when prune_unused_layouts returns, every master has lost each
\* slideLayout relationship that resolved to a removed layout and each
\* layout-id entry bound to such a relationship, and has kept its other
\* relationships and its other layout-id entries, in their order.
C22_PruneCleansEveryMaster ==
    [][(op' = "prune_unused_layouts" /\ err' = "ok") =>
        \A m \in Range(master_parts(pkg)) :
            LET removed == Range(ret'[1].removed_layouts)
                rels == get_relationships(pkg, m)
                Kept(rel) == ~TargetsRemoved(m, rel, removed)
                gone_ids == {rels[i].id : i \in {j \in DOMAIN rels :
                                TargetsRemoved(m, rels[j], removed)}}
                KeptItem(item) == item.rid \notin gone_ids
            IN  /\ has_part(pkg', m)
                /\ get_relationships(pkg', m) = SelectSeq(rels, Kept)
                /\ LayoutIdItems(pkg', m) = SelectSeq(LayoutIdItems(pkg, m), KeptItem)
                /\ \A l \in removed : ~has_part(pkg', l)
      ]_vars

\* C22: prune_unused_layouts has removed one layout and rewritten two
\* masters for it
C22_Witness ==
    /\ op = "prune_unused_layouts"
    /\ err = "ok"
    /\ Len(ret[1].removed_layouts) = 1
    /\ ret[1].masters_updated = 2

\* the number _next_layout_part takes: one more than the largest number of
\* a layout part named slideLayout<N>.xml
NextLayoutNumber(p) ==
    Max({0} \cup {l.num : l \in {q \in Range(layout_parts(p)) :
                                   q.stem = "slideLayout" /\ q.num >= 0}}) + 1

\* C23: a make_layout_from_slide that returns names the new part
\* slideLayout<N>.xml with N one more than the largest number of a layout
\* part, and, called after a prune_unused_layouts, N is not the number of a
\* layout that call has removed.
C23_NeverReusesFreedNumber ==
    [][(op' = "make_layout_from_slide" /\ err' = "ok") =>
          /\ ret'[1] = LayoutPart(NextLayoutNumber(pkg))
          /\ (op = "prune_unused_layouts" /\ err = "ok")
                => ret'[1] \notin Range(ret[1].removed_layouts)
      ]_vars

-----------------------------------------------------------------------------
\* C24: when make_layout_from_slide returns, the relationships of the new
\* layout are the relationships of the source slide whose id an r:embed,
\* r:link or r:id of the cloned body holds, and one more, of type
\* slideMaster, that resolves to the chosen master and has none of the
\* copied ids.
C24_LayoutRelationshipsAreBodyReferences ==
    [][(op' = "make_layout_from_slide" /\ err' = "ok") =>
        LET slide_part == slide_parts_in_order(pkg)[args'.slide_number]
            master_part == master_part_by_index(pkg, args'.master_index).part
            body == read_part(pkg', ret'[1]).cSld
            Referenced(rel) == rel.id \in body.rids
            copied == SelectSeq(get_relationships(pkg, slide_part), Referenced)
            layout_rels == get_relationships(pkg', ret'[1])
            masters == {i \in DOMAIN layout_rels :
                          layout_rels[i].type = SLIDE_MASTER_REL}
        IN  /\ body.present
            /\ Len(layout_rels) = Len(copied) + 1
            /\ Range(layout_rels)
                  = Range(copied) \cup {layout_rels[i] : i \in masters}
            /\ Cardinality(masters) = 1
            /\ \A i \in masters :
                  /\ resolve_target(dirname(ret'[1]), layout_rels[i].target)
                        = master_part
                  /\ \A k \in DOMAIN copied : copied[k].id # layout_rels[i].id
      ]_vars

\* C25: when make_layout_from_slide returns, the chosen master's layout-id
\* list is the old list and one entry after it; the entry's id is one more
\* than the largest id of the old list, or 256 when the old list is empty,
\* so no old entry has it; its r:id is the id of one relationship of the
\* master, of type slideLayout and resolving to the new layout, and no old
\* entry has that r:id.
C25_NewLayoutIdEntry ==
    [][(op' = "make_layout_from_slide" /\ err' = "ok") =>
        LET master_part == master_part_by_index(pkg, args'.master_index).part
            before == LayoutIdItems(pkg, master_part)
            after == LayoutIdItems(pkg', master_part)
            new == after[Len(after)]
            ids == {before[i].id : i \in DOMAIN before}
            rels == get_relationships(pkg', master_part)
            bound == {k \in DOMAIN rels : rels[k].id = new.rid}
        IN  /\ Len(after) = Len(before) + 1
            /\ SubSeq(after, 1, Len(before)) = before
            /\ new.id = (IF ids = {} THEN 256 ELSE Max(ids) + 1)
            /\ new.id \notin ids
            /\ Cardinality(bound) = 1
            /\ \A k \in bound :
                  /\ rels[k].type = SLIDE_LAYOUT_REL
                  /\ resolve_target(dirname(master_part), rels[k].target) = ret'[1]
            /\ \A i \in DOMAIN before : before[i].rid # new.rid
      ]_vars

\* C25: make_layout_from_slide has returned twice for the second master,
\* whose layout-id list was empty: the entries 256 and 257 are its list,
\* and the first master's list is untouched
C25_Witness ==
    /\ op = "make_layout_from_slide"
    /\ err = "ok"
    /\ calls = 2
    /\ args.master_index = 2
    /\ Len(LayoutIdItems(pkg, MasterPart(1))) = 2
    /\ LET items == LayoutIdItems(pkg, MasterPart(2))
       IN  Len(items) = 2 /\ items[1].id = 256 /\ items[2].id = 257

-----------------------------------------------------------------------------
\* the template the spec names for a master: the target of its first
\* slideLayout relationship, else the first layout part; <<>> when there is
\* no layout part either
TemplateFor(p, master_part) ==
    LET rels == get_relationships(p, master_part)
        hits == {i \in DOMAIN rels : rels[i].type = SLIDE_LAYOUT_REL}
    IN  IF hits # {}
        THEN <<resolve_target(dirname(master_part),
                              rels[CHOOSE i \in hits : \A j \in hits : i <= j].target)>>
        ELSE IF layout_parts(p) # <<>> THEN <<layout_parts(p)[1]>>
        ELSE <<>>

\* the call gets as far as the choice of the template, and nothing after
\* the choice stops it: the slide number and the master index are in range,
\* the slide has a body and a sidecar, the registry exists
ReachesTemplate(p, arguments) ==
    LET slide_parts == slide_parts_in_order(p)
    IN  /\ arguments.slide_number \in DOMAIN slide_parts
        /\ master_part_by_index(p, arguments.master_index).err = "ok"
        /\ has_part(p, slide_parts[arguments.slide_number])
        /\ read_part(p, slide_parts[arguments.slide_number]).cSld.present
        /\ has_part(p, rels_part_for(slide_parts[arguments.slide_number]))
        /\ has_part(p, CONTENT_TYPES_PART)

\* C26: a make_layout_from_slide that gets as far as the choice of the
\* template raises "No slide layout parts found" exactly when the master
\* has no slideLayout relationship and the package no layout part;
\* otherwise, when the template the spec names is a part with a body, the
\* call returns and the new layout is that template with the slide's body,
\* also for a master that has no sidecar.
C26_TemplateLayoutChoice ==
    [][(op' = "make_layout_from_slide" /\ ReachesTemplate(pkg, args')) =>
        LET master_part == master_part_by_index(pkg, args'.master_index).part
            template == TemplateFor(pkg, master_part)
        IN  /\ (err' = "ValueError: No slide layout parts found") = (template = <<>>)
            /\ (/\ template # <<>>
                /\ has_part(pkg, template[1])
                /\ read_part(pkg, template[1]).cSld.present)
                  => /\ err' = "ok"
                     /\ read_part(pkg', ret'[1]).rest = read_part(pkg, template[1]).rest
      ]_vars

-----------------------------------------------------------------------------
\* the positions of the slideLayout relationships in a list
LayoutRelsIn(rels) == {i \in DOMAIN rels : EndsWithSlideLayout(rels[i].type)}

\* C27: an assign_slides_to_layout whose slide numbers are all in range
\* returns, and then every listed slide has a slideLayout relationship
\* and each of them resolves to layout_part; a slide that had one has the
\* same relationships as before but for that target, and a slide that had
\* none, or no sidecar, has its old relationships and one more after them.
C27_AssignedSlidesResolveToLayout ==
    [][(op' = "assign_slides_to_layout"
        /\ \A k \in DOMAIN args'.slide_numbers :
              args'.slide_numbers[k] \in DOMAIN slide_parts_in_order(pkg)) =>
        /\ err' = "ok"
        /\ \A k \in DOMAIN args'.slide_numbers :
              LET slide_part == slide_parts_in_order(pkg)[args'.slide_numbers[k]]
                  before == get_relationships(pkg, slide_part)
                  after == get_relationships(pkg', slide_part)
              IN  /\ LayoutRelsIn(after) # {}
                  /\ \A i \in LayoutRelsIn(after) :
                        resolve_target(dirname(slide_part), after[i].target)
                            = args'.layout_part
                  /\ IF LayoutRelsIn(before) # {}
                     THEN /\ Len(after) = Len(before)
                          /\ \A i \in DOMAIN before :
                                /\ after[i].id = before[i].id
                                /\ after[i].type = before[i].type
                                /\ i \notin LayoutRelsIn(before)
                                      => after[i] = before[i]
                     ELSE /\ Len(after) = Len(before) + 1
                          /\ SubSeq(after, 1, Len(before)) = before
      ]_vars

\* C28: an assign_slides_to_layout, returning or raising, leaves the
\* package with the same parts in the same order, and every part that is
\* not the sidecar of a listed slide with the same content: the sidecars
\* of the other slides, the slides, layouts and masters, the registry.  In
\* the sidecar of a listed slide every relationship whose type is not a
\* slideLayout type is where it was, with its id, type and target, and no
\* two relationships have one id.
C28_AssignTouchesOnlyListedSidecars ==
    [][op' = "assign_slides_to_layout" =>
        LET slide_parts == slide_parts_in_order(pkg)
            listed == {slide_parts[n] :
                         n \in Range(args'.slide_numbers) \cap DOMAIN slide_parts}
        IN  /\ pkg'.order = pkg.order
            /\ list_parts(pkg') = list_parts(pkg)
            /\ \A name \in list_parts(pkg) \ {rels_part_for(s) : s \in listed} :
                  read_part(pkg', name) = read_part(pkg, name)
            /\ \A s \in listed :
                  LET before == get_relationships(pkg, s)
                      after == get_relationships(pkg', s)
                  IN  /\ \A i \in DOMAIN before \ LayoutRelsIn(before) :
                            i \in DOMAIN after /\ after[i] = before[i]
                      /\ \A i \in DOMAIN after, j \in DOMAIN after :
                            i # j => after[i].id # after[j].id
      ]_vars

\* C28: assign_slides_to_layout has returned after moving the first slide,
\* which embeds an image, to the second layout
C28_Witness ==
    /\ op = "assign_slides_to_layout"
    /\ err = "ok"
    /\ 1 \in Range(args.slide_numbers)
    /\ args.layout_part = LayoutPart(2)
    /\ has_part(pkg, rels_part_for(SlidePart(1)))
    /\ LET rels == get_relationships(pkg, SlidePart(1))
       IN  /\ \E i \in DOMAIN rels : rels[i].type = IMAGE_REL
           /\ \E i \in LayoutRelsIn(rels) :
                 resolve_target(dirname(SlidePart(1)), rels[i].target) = LayoutPart(2)

-----------------------------------------------------------------------------
\* the slides the slide-id list of the presentation part names: for every
\* entry whose r:id is the id of a relationship of type slide in the
\* presentation's sidecar, in the order of the list, the part the
\* relationship resolves to
ListedSlides(p) ==
    LET sldIdLst == read_part(p, PRESENTATION_PART).sldIdLst
        rels == get_relationships(p, PRESENTATION_PART)
        RelOf(rid) == rels[CHOOSE i \in DOMAIN rels : rels[i].id = rid]
        IsSlide(rid) == /\ \E i \in DOMAIN rels : rels[i].id = rid
                        /\ RelOf(rid).type = SLIDE_REL
        kept == SelectSeq(sldIdLst, IsSlide)
    IN  [k \in DOMAIN kept |-> resolve_target(<<"ppt">>, RelOf(kept[k]).target)]

\* the parts ppt/slides/slide<N>.xml
NumberedSlides(p) ==
    {q \in list_parts(p) : \E n \in 0..10 : q = SlidePart(n)}

\* C29: slide_parts_in_order returns the sorted slide<N>.xml parts of the
\* slides directory when the presentation part or its sidecar is absent or
\* the slide-id list names no slide, and otherwise the slides the list
\* names, in its order.
C29_SlideEnumeration ==
    op = "slide_parts_in_order" =>
        IF \/ ~has_part(pkg, PRESENTATION_PART)
           \/ ~has_part(pkg, rels_part_for(PRESENTATION_PART))
           \/ ListedSlides(pkg) = <<>>
        THEN /\ Range(ret[1]) = NumberedSlides(pkg)
             /\ Len(ret[1]) = Cardinality(NumberedSlides(pkg))
             /\ \A i \in DOMAIN ret[1], j \in DOMAIN ret[1] :
                   i < j => LexLess(Digits(ret[1][i].num), Digits(ret[1][j].num))
        ELSE ret[1] = ListedSlides(pkg)

\* C29: the enumeration has returned slide 2 before slide 1 for a list
\* whose entries are bound to slide 2, to a master and to slide 1
C29_Witness ==
    /\ op = "slide_parts_in_order"
    /\ has_part(pkg, PRESENTATION_PART)
    /\ has_part(pkg, rels_part_for(PRESENTATION_PART))
    /\ read_part(pkg, PRESENTATION_PART).sldIdLst = <<1, 3, 2>>
    /\ ret[1] = <<SlidePart(2), SlidePart(1)>>

-----------------------------------------------------------------------------
\* C30: an ensure_relationship for a type and target that no relationship of
\* the part has returns a relationship of that type and target whose id is
\* the smallest N >= 1 that no relationship of the part has; the
\* relationships get_relationships returns afterwards are the old ones and
\* that relationship after them, read from the part's sidecar.
C30_EnsureAllocatesSmallestFreeId ==
    [][(/\ op' = "ensure_relationship"
        /\ \A i \in DOMAIN get_relationships(pkg, args'.source_part) :
              LET rel == get_relationships(pkg, args'.source_part)[i]
              IN  rel.type # args'.rel_type \/ rel.target # args'.target) =>
        LET before == get_relationships(pkg, args'.source_part)
            used == {before[i].id : i \in DOMAIN before}
            new == ret'[1]
        IN  /\ new.type = args'.rel_type
            /\ new.target = args'.target
            /\ new.id >= 1
            /\ new.id \notin used
            /\ \A n \in 1..(new.id - 1) : n \in used
            /\ has_part(pkg', rels_part_for(args'.source_part))
            /\ get_relationships(pkg', args'.source_part) = Append(before, new)
      ]_vars

\* C30: ensure_relationship has returned rId1 for a part whose sidecar held
\* rId2 only
C30_Witness ==
    /\ op = "ensure_relationship"
    /\ ret # <<>>
    /\ ret[1].id = 1
    /\ LET rels == get_relationships(pkg, args.source_part)
       IN  /\ Len(rels) = 2
           /\ rels[1].id = 2
           /\ rels[2] = ret[1]

=============================================================================
